---- MODULE Spec2Model ----
(***************************************************************************)
(* Model of the demand-execution scaffolding of                            *)
(* aibs_informatics_aws_lambda: file-system selection                      *)
(* (handlers/demand/scaffolding.py, select_file_system), the construction  *)
(* of the file-system configurations (handlers/demand/model.py), the       *)
(* scaffolding handler (PrepareDemandScaffoldingHandler.handle), the       *)
(* context manager of a demand execution                                   *)
(* (handlers/demand/context_manager.py), the outdated-path scanner and     *)
(* the removal of EFS paths (handlers/efs/operations.py), and the          *)
(* dispatch of notifications (handlers/notifications).                     *)
(*                                                                         *)
(* The specifications:                                                     *)
(*   Spec        one call of select_file_system on inputs drawn in Init;   *)
(*   SpecRandom  a sequence of calls on one candidate list, with other     *)
(*               uses of the process-wide random generator in between;     *)
(*   SpecHandle  invocations of the scaffolding handler running in one     *)
(*               process, interleaved at their accesses to shared state;   *)
(*   SpecJob     the batch job of one execution: environment, environment  *)
(*               file and container command;                               *)
(*   SpecSync    the rewriting of the parameters of one execution and its  *)
(*               post-execution data-sync requests;                        *)
(*   SpecVols    the volumes of the mounts of one job;                     *)
(*   SpecScan    one run of the outdated-path scanner on a small tree;     *)
(*   SpecRemove  one run of RemoveEFSPathsHandler on a small file system;  *)
(*   SpecNotify  one run of the notification router over its notifiers,    *)
(*               or of a notification handler over its publishers.         *)
(***************************************************************************)
EXTENDS Integers, Sequences, FiniteSets, TLC

VARIABLES
    frame,   \* the activation of select_file_system under study
    rng,     \* state of the process-wide generator of Python's random module
    efs,     \* what the EFS service answers: access points and file systems
    seeded,  \* history: per seed, the last seeded RANDOM result and call count
    inv,     \* per invocation of the scaffolding handler: its position and data
    job,     \* the batch job built for one demand execution
    sync,    \* the parameters and data-sync requests of one demand execution
    vols,    \* the EFS mounts of one job and their volume names
    scan,    \* one run of the outdated-path scanner
    rm,      \* one run of the handler that removes EFS paths
    router,  \* one run of the notification router
    publish  \* one run of a notification handler with its publishers

vars == <<frame, rng, efs, seeded, inv, job, sync, vols, scan, rm, router, publish>>

\* the variables of the file-system selection and of the other handlers
selvars == <<frame, rng, efs, seeded, inv>>
opsvars == <<rm, router, publish>>
ctxvars == <<job, sync, vols, scan, rm, router, publish>>

----------------------------------------------------------------------------
(* Bounds *)

\* longest candidate list given to one call of select_file_system
MaxCandidates == 3

\* longest shared / scratch / tmp list of a scaffolding request
MaxRoleCandidates == 2

----------------------------------------------------------------------------
(* Values *)

\* Python's None
None == "None"

\* Python truthiness of an Optional[str]: None and "" are falsy
Truthy(x) == x # None /\ x # ""

FsIds == {"fs-1", "fs-2"}
ApIds == {"fsap-1"}
Sizes == {1000, 2000}
Seeds == {"123", "456"}

\* FileSystemSelectionStrategy; UNKNOWN stands for any value outside the enum
RANDOM == "RANDOM"
LEAST_UTILIZED == "LEAST_UTILIZED"
UNKNOWN == "UNKNOWN"
Strategies == {RANDOM, LEAST_UTILIZED, UNKNOWN}

\* FileSystemConfiguration(file_system, access_point, container_path)
FileSystemConfiguration(fs, ap, path) ==
    [file_system |-> fs, access_point |-> ap, container_path |-> path]

\* the candidates a call is tried on
Candidates ==
    { FileSystemConfiguration(fs, ap, None) :
        fs \in FsIds \cup {None, ""}, ap \in ApIds \cup {None} }

SeqsUpTo(S, n) == UNION { [1..k -> S] : k \in 0..n }

\* the answers of the EFS service
EfsEnvs ==
    [ access_points : [ApIds -> FsIds \cup {None}],
      file_systems  : [FsIds -> Sizes] ]

DefaultEfs ==
    [ access_points |-> [a \in ApIds |-> "fs-1"],
      file_systems  |-> [f \in FsIds |-> IF f = "fs-1" THEN 2000 ELSE 1000] ]

----------------------------------------------------------------------------
(* The random module: one generator per process.  The Mersenne Twister is  *)
(* abstracted to a small full-period congruential generator; what is kept  *)
(* is that seed() overwrites the state with a function of its argument,    *)
(* and that choice() reads the state, advances it, and indexes the list.   *)

RngStates == 0..7

\* random.seed(a): the state becomes a function of a alone
seed_ignored(r, a) == r
seed(r, a) == IF a = "123" THEN 4 ELSE 7

\* the generator advances on every draw
NextRandom(r) == (5 * r + 3) % 8

\* random._randbelow(n), n > 0
randbelow(r, n) == r % n

----------------------------------------------------------------------------
(* select_file_system *)

\* get_efs_access_point(...).get("FileSystemId")
get_efs_access_point(env, ap) == env.access_points[ap]

\* get_efs_file_system(...)["SizeInBytes"]["Value"]
get_efs_file_system(env, fs) == env.file_systems[fs]

\* lines 246-249: the two edge cases in front of the main logic
EdgeCase_NoEmpty(n) == IF n = 1 THEN "single" ELSE "main"
EdgeCase_NoSingle(n) == IF n = 0 THEN "empty" ELSE "main"
EdgeCase(n) == IF n = 0 THEN "empty" ELSE IF n = 1 THEN "single" ELSE "main"

\* an activation of select_file_system
NewFrame(cfgs, strategy, seed_number) ==
    [ file_system_configurations |-> cfgs,   \* the list, mutated in place
      given              |-> cfgs,           \* the list as it was passed
      selection_strategy |-> strategy,
      seed_number        |-> seed_number,
      pc                 |-> "call",
      result             |-> 0,              \* index of the returned candidate
      error              |-> None,
      fs_id_to_description |-> << >>,        \* fs id -> used bytes
      fs_calls           |-> [f \in FsIds |-> 0],
      ap_calls           |-> [a \in ApIds |-> 0] ]

IdleFrame == [NewFrame(<< >>, RANDOM, None) EXCEPT !.pc = "idle"]

Return(fr, i) == [fr EXCEPT !.pc = "returned", !.result = i]
Raise(fr, e) == [fr EXCEPT !.pc = "raised", !.error = e]

\* lines 246-258, 296-297: entry of select_file_system up to the first
\* access to the generator or to the EFS service
select_enter(fr) ==
    LET n == Len(fr.file_system_configurations)
        edge == EdgeCase(n)
    IN  IF edge = "empty" THEN Raise(fr, "ValueError")
        ELSE IF edge = "single" THEN Return(fr, 1)
        ELSE IF fr.selection_strategy = RANDOM
             THEN [fr EXCEPT !.pc = IF fr.seed_number # None THEN "seed"
                                    ELSE "choice"]
        ELSE IF fr.selection_strategy = LEAST_UTILIZED
             THEN [fr EXCEPT !.pc = "least_utilized"]
        ELSE Raise(fr, "ValueError")

\* line 257: choice(file_system_configurations); IndexError on an empty list
select_choice(fr, r) ==
    LET n == Len(fr.file_system_configurations)
    IN  IF n = 0 THEN Raise(fr, "IndexError")
        ELSE Return(fr, randbelow(r, n) + 1)

\* lines 267-269, 276-278: fetch a description unless it is cached
Fetch_NoCache(env, fr, fs) ==
    [fr EXCEPT !.fs_id_to_description =
                   (fs :> get_efs_file_system(env, fs)) @@ @,
               !.fs_calls[fs] = @ + 1]
Fetch(env, fr, fs) ==
    IF fs \in DOMAIN fr.fs_id_to_description THEN fr
    ELSE [fr EXCEPT !.fs_id_to_description =
                        (fs :> get_efs_file_system(env, fs)) @@ @,
                    !.fs_calls[fs] = @ + 1]

\* lines 265-282: the body of the loop for the candidate at index i
ResolveOne_SkipMissing(env, fr, i) ==
    LET c == fr.file_system_configurations[i]
    IN  IF Truthy(c.file_system) THEN Fetch(env, fr, c.file_system)
        ELSE IF Truthy(c.access_point) THEN
            LET fs  == get_efs_access_point(env, c.access_point)
                fr1 == [fr EXCEPT
                          !.file_system_configurations[i].file_system = fs,
                          !.ap_calls[c.access_point] = @ + 1]
            IN  IF Truthy(fs) THEN Fetch(env, fr1, fs) ELSE fr1
        ELSE fr
ResolveOne_AlwaysAccessPoint(env, fr, i) ==
    LET c == fr.file_system_configurations[i]
    IN  IF Truthy(c.access_point) THEN
            LET fs  == get_efs_access_point(env, c.access_point)
                fr1 == [fr EXCEPT
                          !.file_system_configurations[i].file_system = fs,
                          !.ap_calls[c.access_point] = @ + 1]
            IN  IF Truthy(fs) THEN Fetch(env, fr1, fs) ELSE fr1
        ELSE IF Truthy(c.file_system) THEN Fetch(env, fr, c.file_system)
        ELSE Raise(fr, "ValueError")
ResolveOne(env, fr, i) ==
    LET c == fr.file_system_configurations[i]
    IN  IF Truthy(c.file_system) THEN Fetch(env, fr, c.file_system)
        ELSE IF Truthy(c.access_point) THEN
            LET fs  == get_efs_access_point(env, c.access_point)
                fr1 == [fr EXCEPT
                          !.file_system_configurations[i].file_system = fs,
                          !.ap_calls[c.access_point] = @ + 1]
            IN  IF Truthy(fs) THEN Fetch(env, fr1, fs) ELSE fr1
        ELSE Raise(fr, "ValueError")

\* line 264: for fsconfig in file_system_configurations, left on a raise
RECURSIVE ResolveLoop(_, _, _)
ResolveLoop(env, fr, i) ==
    IF i > Len(fr.file_system_configurations) \/ fr.pc = "raised" THEN fr
    ELSE ResolveLoop(env, ResolveOne(env, fr, i), i + 1)

\* sorted(): insertion of x behind every element whose key is not larger,
\* which keeps elements of equal key in their input order
RECURSIVE insort_Unstable(_, _, _)
insort_Unstable(s, x, key) ==
    IF s = << >> THEN <<x>>
    ELSE IF key[x] <= key[Head(s)] THEN <<x>> \o s
    ELSE <<Head(s)>> \o insort_Unstable(Tail(s), x, key)
RECURSIVE insort(_, _, _)
insort(s, x, key) ==
    IF s = << >> THEN <<x>>
    ELSE IF key[x] < key[Head(s)] THEN <<x>> \o s
    ELSE <<Head(s)>> \o insort(Tail(s), x, key)

RECURSIVE sorted(_, _)
sorted(s, key) ==
    IF s = << >> THEN << >>
    ELSE insort(sorted(SubSeq(s, 1, Len(s) - 1), key), s[Len(s)], key)

\* lines 286-294: filter, sort by used bytes, return the first
select_sorted(fr) ==
    LET cfgs == fr.file_system_configurations
        idx  == [i \in 1..Len(cfgs) |-> i]
        kept == SelectSeq(idx, LAMBDA i : cfgs[i].file_system # None)
        known == \A k \in 1..Len(kept) :
                    cfgs[kept[k]].file_system \in DOMAIN fr.fs_id_to_description
    IN  IF ~known THEN Raise(fr, "KeyError")
        ELSE LET key == [i \in 1..Len(cfgs) |->
                           IF cfgs[i].file_system \in DOMAIN fr.fs_id_to_description
                           THEN fr.fs_id_to_description[cfgs[i].file_system]
                           ELSE 0]
                 sorted_configs == sorted(kept, key)
             IN  IF sorted_configs = << >> THEN Raise(fr, "IndexError")
                 ELSE Return(fr, sorted_configs[1])

\* lines 258-294: the LEAST_UTILIZED branch
select_least_utilized(env, fr) ==
    LET fr1 == ResolveLoop(env, fr, 1)
    IN  IF fr1.pc = "raised" THEN fr1 ELSE select_sorted(fr1)

\* history of the seeded RANDOM calls that returned
Record(h, fr) ==
    IF fr.pc = "returned" /\ fr.selection_strategy = RANDOM
       /\ fr.seed_number # None
    THEN [h EXCEPT ![fr.seed_number] =
            [result |-> fr.result,
             calls  |-> IF @.calls < 2 THEN @.calls + 1 ELSE 2]]
    ELSE h

NoHistory == [s \in Seeds |-> [result |-> 0, calls |-> 0]]
NoInvocations == << >>

\* no job, no data sync, no mounts and no scan under study
NoJob == [pc |-> "none"]
NoSync == [pc |-> "none"]
NoVols == [pc |-> "none"]
NoScan == [pc |-> "none"]
NoRemoval == [pc |-> "none"]
NoRouter == [pc |-> "none"]
NoPublish == [pc |-> "none"]
OpsIdle == rm = NoRemoval /\ router = NoRouter /\ publish = NoPublish
ContextIdle ==
    /\ job = NoJob /\ sync = NoSync /\ vols = NoVols /\ scan = NoScan
    /\ OpsIdle

----------------------------------------------------------------------------
(* Actions on the activation under study *)

\* select_file_system is entered: edge cases and dispatch on the strategy
Enter ==
    /\ frame.pc = "call"
    /\ frame' = select_enter(frame)
    /\ seeded' = Record(seeded, frame')
    /\ UNCHANGED <<rng, efs, inv>>
    /\ UNCHANGED ctxvars

\* line 256: seed(seed_number)
SeedStep ==
    /\ frame.pc = "seed"
    /\ rng' = seed(rng, frame.seed_number)
    /\ frame' = [frame EXCEPT !.pc = "choice"]
    /\ UNCHANGED <<efs, seeded, inv>>
    /\ UNCHANGED ctxvars

\* line 257: return choice(file_system_configurations)
ChoiceStep ==
    /\ frame.pc = "choice"
    /\ frame' = select_choice(frame, rng)
    /\ rng' = NextRandom(rng)
    /\ seeded' = Record(seeded, frame')
    /\ UNCHANGED <<efs, inv>>
    /\ UNCHANGED ctxvars

\* lines 258-294
LeastUtilizedStep ==
    /\ frame.pc = "least_utilized"
    /\ frame' = select_least_utilized(efs, frame)
    /\ UNCHANGED <<rng, efs, seeded, inv>>
    /\ UNCHANGED ctxvars

----------------------------------------------------------------------------
(* Spec: one call of select_file_system.  The generator state is drawn     *)
(* only for RANDOM and the EFS answers only for LEAST_UTILIZED, the only   *)
(* branches that read them.                                                *)

Init ==
    /\ efs \in EfsEnvs
    /\ rng \in RngStates
    /\ \E cfgs \in SeqsUpTo(Candidates, MaxCandidates),
          strategy \in Strategies, s \in Seeds \cup {None} :
          /\ strategy # RANDOM => rng = 0 /\ s = None
          /\ strategy # LEAST_UTILIZED => efs = DefaultEfs
          /\ frame = NewFrame(cfgs, strategy, s)
    /\ seeded = NoHistory
    /\ inv = NoInvocations
    /\ ContextIdle

Next == Enter \/ SeedStep \/ ChoiceStep \/ LeastUtilizedStep

Spec == Init /\ [][Next]_vars

----------------------------------------------------------------------------
(* SpecRandom: calls of select_file_system one after another on the same   *)
(* candidate list, with any strategy and seed, and other draws from the    *)
(* process-wide generator between the calls.                               *)

RandomPool ==
    { FileSystemConfiguration("fs-1", None, None),
      FileSystemConfiguration(None, "fsap-1", None) }

Finished(fr) == fr.pc \in {"idle", "returned", "raised"}

\* the next call on the same list object
Call ==
    /\ Finished(frame)
    /\ \E strategy \in Strategies, s \in Seeds \cup {None} :
          /\ strategy # RANDOM => s = None
          /\ frame' = NewFrame(frame.file_system_configurations, strategy, s)
    /\ UNCHANGED <<rng, efs, seeded, inv>>
    /\ UNCHANGED ctxvars

\* any other code of the process draws from the generator
RandomUse ==
    /\ Finished(frame)
    /\ rng' = NextRandom(rng)
    /\ UNCHANGED <<frame, efs, seeded, inv>>
    /\ UNCHANGED ctxvars

InitRandom ==
    /\ efs = DefaultEfs
    /\ rng \in RngStates
    /\ \E cfgs \in SeqsUpTo(RandomPool, MaxCandidates) :
          frame = [IdleFrame EXCEPT !.file_system_configurations = cfgs,
                                    !.given = cfgs]
    /\ seeded = NoHistory
    /\ inv = NoInvocations
    /\ ContextIdle

NextRandomSpec ==
    Call \/ RandomUse \/ Enter \/ SeedStep \/ ChoiceStep \/ LeastUtilizedStep

SpecRandom == InitRandom /\ [][NextRandomSpec]_vars

----------------------------------------------------------------------------
(* SpecHandle: invocations of PrepareDemandScaffoldingHandler in one       *)
(* process.  An invocation deserializes its event, which constructs        *)
(* DemandFileSystemConfigurations, then runs handle: select and resolve    *)
(* scratch, shared and, when configured, tmp.  Steps of different          *)
(* invocations interleave; a step ends at each access to the generator,    *)
(* the only state the invocations share.                                   *)

Procs == {1, 2}
Roles == {"scratch", "shared", "tmp"}

\* the candidates of the requests: scratch and shared lists are taken from
\* one row, tmp lists from another
PoolCandidate(role, i) ==
    IF role = "tmp"
    THEN IF i % 2 = 1 THEN FileSystemConfiguration(None, None, None)
         ELSE FileSystemConfiguration("fs-2", None, "/mnt/tmp")
    ELSE IF i % 2 = 1 THEN FileSystemConfiguration("fs-1", None, None)
         ELSE FileSystemConfiguration(None, "fsap-1", "/mnt/data")

RoleList(role, n) == [i \in 1..n |-> PoolCandidate(role, i)]

\* PrepareDemandScaffoldingRequest, the fields the selection reads
Requests ==
    { [ scratch |-> RoleList("scratch", ns),
        shared  |-> RoleList("shared", nh),
        tmp     |-> RoleList("tmp", nt),
        selection_strategy |-> st,
        execution_id |-> id ] :
        ns \in 0..MaxRoleCandidates, nh \in 0..MaxRoleCandidates,
        nt \in 0..MaxRoleCandidates,
        st \in {RANDOM, LEAST_UTILIZED}, id \in Seeds }

\* model.py 59-63: DemandFileSystemConfigurations.__post_init__
post_init_NoScratchCheck(req) ==
    IF req.shared = << >> THEN "ValueError" ELSE None
post_init(req) ==
    IF req.shared = << >> THEN "ValueError"
    ELSE IF req.scratch = << >> THEN "ValueError"
    ELSE None

\* scaffolding.py 109, 125, 142: f"/opt/efs{EFS_..._PATH}"
DefaultContainerPath(role) ==
    IF role = "scratch" THEN "/opt/efs/scratch"
    ELSE IF role = "shared" THEN "/opt/efs/shared"
    ELSE "/opt/efs/tmp"

\* scaffolding.py 110, 126, 143: the read_only argument of each role
RoleReadOnly_AllWritable(role) == FALSE
RoleReadOnly(role) == role = "shared"

\* scaffolding.py 300-314: construct_batch_efs_configuration
construct_batch_efs_configuration(container_path, file_system, access_point, read_only) ==
    [ file_system    |-> file_system,
      access_point   |-> access_point,
      container_path |-> container_path,
      read_only      |-> read_only ]

\* scaffolding.py 103-111, 119-127, 136-144
RoleVolConfiguration(role, c) ==
    construct_batch_efs_configuration(
        IF Truthy(c.container_path) THEN c.container_path
        ELSE DefaultContainerPath(role),
        c.file_system, c.access_point, RoleReadOnly(role))

NewInvocation(req) ==
    [ pc       |-> "event",
      request  |-> req,
      role     |-> "scratch",
      frame    |-> IdleFrame,
      selected |-> [r \in Roles |-> 0],
      vol      |-> [r \in Roles |-> {}],   \* per role: no or one volume
      n_select |-> 0,
      n_lookup |-> 0,
      error    |-> None,
      response |-> {} ]                    \* no or one response

Sum(f) ==
    LET RECURSIVE S(_)
        S(D) == IF D = {} THEN 0
                ELSE LET d == CHOOSE x \in D : TRUE IN f[d] + S(D \ {d})
    IN  S(DOMAIN f)

\* scaffolding.py 129: if request.file_system_configurations.tmp
NextRole(iv) ==
    IF iv.role = "scratch" THEN "shared"
    ELSE IF iv.role = "shared" /\ iv.request.tmp # << >> THEN "tmp"
    ELSE "end"

\* scaffolding.py 97-192: handle from the return of one select_file_system
\* to the call of the next, or to the response
AfterSelect(iv, fr) ==
    LET lookups == Sum(fr.fs_calls) + Sum(fr.ap_calls)
        iv1 == [iv EXCEPT !.frame = fr,
                          !.request[iv.role] = fr.file_system_configurations,
                          !.n_lookup = @ + lookups]
    IN  IF fr.pc = "raised"
        THEN [iv1 EXCEPT !.pc = "failed", !.error = fr.error]
        ELSE LET c   == fr.file_system_configurations[fr.result]
                 iv2 == [iv1 EXCEPT !.selected[iv.role] = fr.result,
                                    !.vol[iv.role] =
                                        {RoleVolConfiguration(iv.role, c)}]
             IN  IF NextRole(iv) = "end"
                 THEN [iv2 EXCEPT !.pc = "done",
                                  !.response = {[volumes |-> iv2.vol]}]
                 ELSE [iv2 EXCEPT !.pc = "handle", !.role = NextRole(iv)]

\* events that are no request: the execution id is missing
MalformedEvents ==
    { [ scratch |-> RoleList("scratch", 1),
        shared  |-> RoleList("shared", 2),
        tmp     |-> RoleList("tmp", 0),
        selection_strategy |-> st,
        execution_id |-> None ] : st \in {RANDOM, LEAST_UTILIZED} }

Events == Requests \cup MalformedEvents

\* the schema of the request: the required fields are there
WellFormed(event) == event.execution_id # None

\* handler.py 144: deserialize_request validates the event and constructs
\* the request objects; the error it raises, or None
deserialize_request_Unvalidated(event) == post_init(event)
deserialize_request(event) ==
    IF ~WellFormed(event) THEN "ValidationError" ELSE post_init(event)

\* handler.py 139-147: the event is deserialized, then handle is called
Deserialize(p) ==
    /\ inv[p].pc = "event"
    /\ inv' = [inv EXCEPT ![p] =
                 IF deserialize_request(inv[p].request) # None
                 THEN [inv[p] EXCEPT !.pc = "rejected",
                                     !.error = deserialize_request(inv[p].request)]
                 ELSE [inv[p] EXCEPT !.pc = "handle"]]
    /\ UNCHANGED <<frame, rng, efs, seeded>>
    /\ UNCHANGED ctxvars

\* handle calls select_file_system for the current role; the step runs to
\* the return of the call, or to seed(seed_number) under RANDOM
HandleSelect(p) ==
    /\ inv[p].pc = "handle"
    /\ LET iv == inv[p]
           fr == select_enter(NewFrame(iv.request[iv.role],
                                       iv.request.selection_strategy,
                                       iv.request.execution_id))
           iv1 == [iv EXCEPT !.n_select = @ + 1]
       IN  IF fr.pc = "seed"
           THEN /\ rng' = seed(rng, fr.seed_number)
                /\ inv' = [inv EXCEPT ![p] =
                             [iv1 EXCEPT !.pc = "seeded",
                                         !.frame = [fr EXCEPT !.pc = "choice"]]]
           ELSE IF fr.pc = "choice"
           THEN /\ rng' = NextRandom(rng)
                /\ inv' = [inv EXCEPT ![p] =
                             AfterSelect(iv1, select_choice(fr, rng))]
           ELSE IF fr.pc = "least_utilized"
           THEN /\ rng' = rng
                /\ inv' = [inv EXCEPT ![p] =
                             AfterSelect(iv1, select_least_utilized(efs, fr))]
           ELSE /\ rng' = rng
                /\ inv' = [inv EXCEPT ![p] = AfterSelect(iv1, fr)]
    /\ UNCHANGED <<frame, efs, seeded>>
    /\ UNCHANGED ctxvars

\* choice(file_system_configurations) after the seeding, then on to the next
\* call of select_file_system or to the response
HandleChoice(p) ==
    /\ inv[p].pc = "seeded"
    /\ rng' = NextRandom(rng)
    /\ inv' = [inv EXCEPT ![p] =
                 AfterSelect(inv[p], select_choice(inv[p].frame, rng))]
    /\ UNCHANGED <<frame, efs, seeded>>
    /\ UNCHANGED ctxvars

\* every request that reaches handle carries an execution id, so each
\* choice() of handle follows a seed(): the state the generator starts in
\* is never read
InitHandle ==
    /\ efs = DefaultEfs
    /\ rng = 0
    /\ inv \in [Procs -> {NewInvocation(event) : event \in Events}]
    /\ frame = IdleFrame
    /\ seeded = NoHistory
    /\ ContextIdle

NextHandle ==
    \E p \in Procs : Deserialize(p) \/ HandleSelect(p) \/ HandleChoice(p)

SpecHandle == InitHandle /\ [][NextHandle]_vars

----------------------------------------------------------------------------
(* The batch job of a demand execution                                     *)
(* (handlers/demand/context_manager.py, DemandExecutionContextManager.     *)
(* batch_job_builder): the container environment, the environment file    *)
(* .demand.env and the container command.                                  *)

\* a text is a sequence of runs: the token ch repeated n times
Tok(c) == <<[ch |-> c, n |-> 1]>>
Run(c, k) == <<[ch |-> c, n |-> k]>>

\* len(text) in bytes
StrLen(t) ==
    LET RECURSIVE L(_)
        L(i) == IF i = 0 THEN 0 ELSE Len(t[i].ch) * t[i].n + L(i - 1)
    IN  L(Len(t))

\* separator.join(texts)
Join(texts, separator) ==
    LET RECURSIVE J(_)
        J(i) == IF i = 0 THEN << >>
                ELSE IF i = 1 THEN texts[1]
                ELSE J(i - 1) \o separator \o texts[i]
    IN  J(Len(texts))

\* EnvFileWriteMode
NEVER == "NEVER"
ALWAYS == "ALWAYS"
IF_REQUIRED == "IF_REQUIRED"
EnvFileWriteModes == {NEVER, ALWAYS, IF_REQUIRED}

\* the size from which IF_REQUIRED writes the environment file
EnvFileThreshold == 8192

\* the parameters of an execution: at most MaxParams of them
MaxParams == 2

ParamNames == {"A", "B", "C"}

\* len(execution_id): a uuid
ExecutionIdLen == 36
ExecutionId == Run("e", ExecutionIdLen)
EXECUTION_ID == Tok("EXECUTION_ID")

\* the longest value that keeps one parameter and EXECUTION_ID below the
\* threshold
NearThreshold == EnvFileThreshold - StrLen(EXECUTION_ID) - ExecutionIdLen - 2

ParamValues ==
    { Tok("c"), Tok("\""), Tok("\n"),
      Run("x", NearThreshold), Run("x", NearThreshold + 1) }

\* params: an ordered mapping of names to values
EnvVar(name, value) == [name |-> Tok(name), value |-> value]

ParamLists ==
    { ps \in SeqsUpTo({EnvVar(k, v) : k \in ParamNames, v \in ParamValues},
                      MaxParams) :
        \A i, j \in 1..Len(ps) : ps[i].name = ps[j].name => i = j }

\* an argument of a command is a sequence of parts: a literal, or a
\* placeholder ${name}
Literal(s) == [ref |-> FALSE, text |-> s]
Placeholder(s) == [ref |-> TRUE, text |-> s]

Commands ==
    { << <<Literal("cmd")>>, <<Placeholder("ENV_BASE")>> >>,
      << <<Literal("cmd")>>, <<Placeholder("ENV_BASE")>>,
         <<Placeholder("A"), Literal("/"), Placeholder("B")>> >>,
      << <<Literal("cmd")>>, <<Placeholder("C")>> >> }

\* the names a command refers to as ${name}
Referenced(command) ==
    UNION { { command[i][j].text :
                j \in { k \in 1..Len(command[i]) : command[i][k].ref } } :
            i \in 1..Len(command) }

\* the variables every job gets: ENV_BASE, AWS_REGION, WORKING_DIR, TMPDIR
WorkingPath == Tok("/opt/efs/scratch/") \o ExecutionId
TmpPath == Tok("/opt/efs/scratch/tmp")
InfrastructureEnvironment ==
    << [name |-> Tok("ENV_BASE"),    value |-> Tok("dev-marmotdev")],
       [name |-> Tok("AWS_REGION"),  value |-> Tok("us-west-2")],
       [name |-> Tok("WORKING_DIR"), value |-> WorkingPath],
       [name |-> Tok("TMPDIR"),      value |-> TmpPath] >>

\* the file .demand.env in the working directory, and the variable that
\* points at it
ENVIRONMENT_FILE == Tok("_ENVIRONMENT_FILE")
EnvFilePath == WorkingPath \o Tok("/") \o Tok(".demand.env")
EnvironmentFileVariable == [name |-> ENVIRONMENT_FILE, value |-> EnvFilePath]
ExecutionIdVariable == [name |-> EXECUTION_ID, value |-> ExecutionId]

\* the serialized size of the variables of the execution
EnvironmentSize(params) ==
    LET all == <<ExecutionIdVariable>> \o params
        RECURSIVE Z(_)
        Z(i) == IF i = 0 THEN 0
                ELSE StrLen(all[i].name) + StrLen(all[i].value) + Z(i - 1)
    IN  Z(Len(all))

\* whether the environment file is written
WritesEnvironmentFile_BySizeOnly(mode, params) ==
    \/ mode = ALWAYS
    \/ EnvironmentSize(params) >= EnvFileThreshold
WritesEnvironmentFile_AboveOnly(mode, params) ==
    \/ mode = ALWAYS
    \/ mode = IF_REQUIRED /\ EnvironmentSize(params) > EnvFileThreshold
WritesEnvironmentFile(mode, params) ==
    \/ mode = ALWAYS
    \/ mode = IF_REQUIRED /\ EnvironmentSize(params) >= EnvFileThreshold

IsReferenced(command, v) == v.name[1].ch \in Referenced(command)

\* the variables written to the file: EXECUTION_ID, then the parameters
\* the command does not refer to
FileVariables(command, params) ==
    LET Unreferenced(v) == ~IsReferenced(command, v)
    IN  <<ExecutionIdVariable>> \o SelectSeq(params, Unreferenced)

\* the parameters that stay in the container environment next to the file
InlineVariables_None(command, params) == << >>
InlineVariables(command, params) ==
    LET IsRef(v) == IsReferenced(command, v)
    IN  SelectSeq(params, IsRef)

\* export NAME="VALUE"
ExportLine_Unquoted(v) == Tok("export ") \o v.name \o Tok("=") \o v.value
ExportLine(v) ==
    Tok("export ") \o v.name \o Tok("=") \o Tok("\"") \o v.value \o Tok("\"")

\* the text of the file: the export lines joined by line breaks
EnvironmentFileText(variables) ==
    Join([i \in 1..Len(variables) |-> ExportLine(variables[i])], Tok("\n"))

\* the steps before the command of the execution
MakeWorkingDir == << <<Literal("mkdir")>>, <<Literal("-p")>>, <<Placeholder("WORKING_DIR")>> >>
MakeTmpDir == << <<Literal("mkdir")>>, <<Literal("-p")>>, <<Placeholder("TMPDIR")>> >>
ChangeToWorkingDir == << <<Literal("cd")>>, <<Placeholder("WORKING_DIR")>> >>
SourceEnvironmentFile == << <<Literal(".")>>, <<Placeholder("_ENVIRONMENT_FILE")>> >>

\* ["/bin/bash", "-c", " && ".join(steps)]
ContainerCommand_AlwaysSource(command, written) ==
    [ shell |-> <<"/bin/bash", "-c">>,
      steps |-> <<MakeWorkingDir, MakeTmpDir, ChangeToWorkingDir,
                  SourceEnvironmentFile, command>> ]
ContainerCommand(command, written) ==
    [ shell |-> <<"/bin/bash", "-c">>,
      steps |-> <<MakeWorkingDir, MakeTmpDir, ChangeToWorkingDir>>
                \o (IF written THEN <<SourceEnvironmentFile>> ELSE << >>)
                \o <<command>> ]

NewJob(mode, command, params) ==
    [ pc          |-> "request",
      mode        |-> mode,
      command     |-> command,
      params      |-> params,
      write       |-> FALSE,
      environment |-> << >>,
      file        |-> {},      \* no or one text of .demand.env
      final       |-> {} ]     \* no or one container command

\* the write mode is resolved against the size of the variables
ResolveWriteMode ==
    /\ job.pc = "request"
    /\ job' = [job EXCEPT !.pc = "resolved",
                          !.write = WritesEnvironmentFile(job.mode, job.params)]
    /\ UNCHANGED <<selvars, sync, vols, scan, opsvars>>

\* the file is written; the environment keeps what the command refers to
WriteEnvironmentFile ==
    /\ job.pc = "resolved"
    /\ job.write
    /\ job' = [job EXCEPT
                 !.pc = "environment",
                 !.file = {EnvironmentFileText(
                              FileVariables(job.command, job.params))},
                 !.environment =
                     InfrastructureEnvironment \o <<EnvironmentFileVariable>>
                     \o InlineVariables(job.command, job.params)]
    /\ UNCHANGED <<selvars, sync, vols, scan, opsvars>>

\* no file: every variable goes into the container environment
InlineEnvironment ==
    /\ job.pc = "resolved"
    /\ ~job.write
    /\ job' = [job EXCEPT
                 !.pc = "environment",
                 !.environment =
                     InfrastructureEnvironment \o <<ExecutionIdVariable>>
                     \o job.params]
    /\ UNCHANGED <<selvars, sync, vols, scan, opsvars>>

\* the command of the execution is wrapped
BuildCommand ==
    /\ job.pc = "environment"
    /\ job' = [job EXCEPT
                 !.pc = "built",
                 !.final = {ContainerCommand(job.command, job.file # {})}]
    /\ UNCHANGED <<selvars, sync, vols, scan, opsvars>>

SelectionIdle ==
    /\ frame = IdleFrame
    /\ rng = 0
    /\ efs = DefaultEfs
    /\ seeded = NoHistory
    /\ inv = NoInvocations

InitJob ==
    /\ SelectionIdle
    /\ OpsIdle
    /\ job \in { NewJob(mode, command, params) :
                   mode \in EnvFileWriteModes, command \in Commands,
                   params \in ParamLists }
    /\ sync = NoSync
    /\ vols = NoVols
    /\ scan = NoScan

NextJob ==
    ResolveWriteMode \/ WriteEnvironmentFile \/ InlineEnvironment \/ BuildCommand

SpecJob == InitJob /\ [][NextJob]_vars

----------------------------------------------------------------------------
(* The parameters of a demand execution and its data-sync requests         *)
(* (handlers/demand/context_manager.py:                                    *)
(* update_demand_execution_parameter_inputs and                            *)
(* DemandExecutionContextManager.post_execution_data_sync_requests).       *)
(* A path is the sequence of its components.                               *)

\* the most parameters of one execution
MaxSyncParams == 2

DemandId == "execution-1"

\* container_shared_path
SharedPaths == { <<"opt", "efs", "shared">>, <<"mnt", "efs">> }

\* container_working_path: the scratch mount, then the execution id
WorkingPaths ==
    { <<"opt", "efs", "scratch", DemandId>>,
      <<"opt", "tmp", DemandId>>,
      <<"mnt", "efs", DemandId>> }

\* output_s3_prefix
OutputPrefix == <<"s3://bucket/prefix">>

\* no local path given for an input
NoLocal == << >>

\* a parameter: an input with its remote and maybe a local path, an output
\* with its local path, or a plain value
InputParam(name, local, remote) ==
    [name |-> name, kind |-> "input", local |-> local, remote |-> remote,
     value |-> local]
OutputParam(name, local) ==
    [name |-> name, kind |-> "output", local |-> local, remote |-> None,
     value |-> local]
PlainParam(name, v) ==
    [name |-> name, kind |-> "plain", local |-> v, remote |-> None,
     value |-> v]

SyncParamPool ==
    { InputParam("X", <<"X">>, "s3://bucket/in"),
      InputParam("X", NoLocal, "s3://bucket/in"),
      OutputParam("X", <<"outs">>),
      InputParam("Y", <<"data", "in">>, "s3://other/in"),
      OutputParam("Y", <<"Y">>),
      PlainParam("Y", <<"a">>),
      OutputParam("Z", <<"outs">>) }

SyncParamLists ==
    { ps \in SeqsUpTo(SyncParamPool, MaxSyncParams) :
        \A i, j \in 1..Len(ps) : ps[i].name = ps[j].name => i = j }

\* pathlib: whether path p is base or lies below it
Under(p, base) ==
    /\ Len(p) >= Len(base)
    /\ SubSeq(p, 1, Len(base)) = base

\* the component named by the hash of the remote
Sha256(remote) == "sha256:" \o remote

\* where an input lands: in the working directory under its local path
\* when inputs are isolated, in the shared directory under a hash otherwise
InputDestination_AlwaysShared(p, shared, working, isolate_inputs) ==
    shared \o <<Sha256(p.remote)>>
InputDestination(p, shared, working, isolate_inputs) ==
    IF isolate_inputs
    THEN working \o (IF p.local = NoLocal THEN <<Sha256(p.remote)>>
                     ELSE p.local)
    ELSE shared \o <<Sha256(p.remote)>>

\* update_demand_execution_parameter_inputs
update_demand_execution_parameter_inputs(params, shared, working, isolate_inputs) ==
    [i \in 1..Len(params) |->
        IF params[i].kind = "input"
        THEN [params[i] EXCEPT
                !.value = InputDestination(params[i], shared, working,
                                           isolate_inputs)]
        ELSE params[i]]

\* the outputs are written below the working directory
update_demand_execution_parameter_outputs(params, working) ==
    [i \in 1..Len(params) |->
        IF params[i].kind = "output"
        THEN [params[i] EXCEPT !.value = working \o params[i].local]
        ELSE params[i]]

\* the request that uploads one output
OutputRequest(p, output_prefix) ==
    [ source_path        |-> p.value,
      destination_path   |-> output_prefix \o p.local,
      retain_source_data |-> FALSE ]

\* post_execution_data_sync_requests: one request per output, in order
post_execution_data_sync_requests_FirstOnly(params, output_prefix) ==
    LET IsOutput(p) == p.kind = "output"
        outs == SelectSeq(params, IsOutput)
    IN  IF outs = << >> THEN << >>
        ELSE <<OutputRequest(outs[1], output_prefix)>>
post_execution_data_sync_requests(params, output_prefix) ==
    LET IsOutput(p) == p.kind = "output"
        outs == SelectSeq(params, IsOutput)
    IN  [i \in 1..Len(outs) |-> OutputRequest(outs[i], output_prefix)]

NewSync(params, shared, working, isolate_inputs) ==
    [ pc             |-> "new",
      given          |-> params,
      params         |-> params,
      shared         |-> shared,
      working        |-> working,
      isolate_inputs |-> isolate_inputs,
      post           |-> << >> ]

UpdateInputs ==
    /\ sync.pc = "new"
    /\ sync' = [sync EXCEPT
                  !.pc = "inputs",
                  !.params = update_demand_execution_parameter_inputs(
                                 sync.params, sync.shared, sync.working,
                                 sync.isolate_inputs)]
    /\ UNCHANGED <<selvars, job, vols, scan, opsvars>>

UpdateOutputs ==
    /\ sync.pc = "inputs"
    /\ sync' = [sync EXCEPT
                  !.pc = "ready",
                  !.params = update_demand_execution_parameter_outputs(
                                 sync.params, sync.working)]
    /\ UNCHANGED <<selvars, job, vols, scan, opsvars>>

PostExecutionRequests ==
    /\ sync.pc = "ready"
    /\ sync' = [sync EXCEPT
                  !.pc = "requested",
                  !.post = post_execution_data_sync_requests(
                               sync.params, OutputPrefix)]
    /\ UNCHANGED <<selvars, job, vols, scan, opsvars>>

InitSync ==
    /\ SelectionIdle
    /\ OpsIdle
    /\ job = NoJob
    /\ sync \in { NewSync(params, shared, working, isolate_inputs) :
                    params \in SyncParamLists, shared \in SharedPaths,
                    working \in WorkingPaths, isolate_inputs \in BOOLEAN }
    /\ vols = NoVols
    /\ scan = NoScan

NextSync == UpdateInputs \/ UpdateOutputs \/ PostExecutionRequests

SpecSync == InitSync /\ [][NextSync]_vars

----------------------------------------------------------------------------
(* The EFS volumes of a job (BatchEFSConfiguration, built by               *)
(* construct_batch_efs_configuration for the scratch, shared and tmp       *)
(* mounts): each mount gets a volume, named after its file system and its  *)
(* container path.                                                         *)

\* the most mounts of one job: scratch, shared and tmp
MaxMounts == 3

\* the file systems as EFS describes them: an id, and a Name when tagged
FileSystemDescriptions ==
    { [FileSystemId |-> "fs-123456789012", Name |-> None],
      [FileSystemId |-> "fs-abcdef12345", Name |-> "fs"] }

\* container paths, as sequences of components
MountPaths ==
    { <<"opt", "efs">>, <<"mnt", "efs">>,
      <<"opt", "efs", "a-b">>, <<"opt", "efs", "a", "b">> }

\* the path with its separators replaced by hyphens
SlugPath(path) ==
    LET RECURSIVE J(_)
        J(i) == IF i = 1 THEN path[1] ELSE J(i - 1) \o "-" \o path[i]
    IN  J(Len(path))

\* BatchEFSConfiguration: the name of the volume of a mount
VolumeName(file_system, mount_path) ==
    (IF Truthy(file_system.Name) THEN file_system.Name
     ELSE file_system.FileSystemId)
    \o "-" \o SlugPath(mount_path) \o "-vol"

\* BatchEFSConfiguration.mount_point and .volume
BatchEFSConfiguration(file_system, mount_path, read_only) ==
    [ mount_point |-> [ containerPath |-> mount_path,
                        readOnly      |-> read_only,
                        sourceVolume  |-> VolumeName(file_system, mount_path) ],
      volume      |-> [ name         |-> VolumeName(file_system, mount_path),
                        fileSystemId |-> file_system.FileSystemId ] ]

Mounts ==
    { [file_system |-> fs, mount_path |-> p, read_only |-> FALSE] :
        fs \in FileSystemDescriptions, p \in MountPaths }

NewVols(mounts) == [pc |-> "mounts", mounts |-> mounts, built |-> << >>]

\* the configuration of the next mount of the job is built
BuildVolume ==
    /\ vols.pc = "mounts"
    /\ Len(vols.built) < Len(vols.mounts)
    /\ LET m == vols.mounts[Len(vols.built) + 1]
       IN  vols' = [vols EXCEPT
                      !.built = Append(@, BatchEFSConfiguration(
                                     m.file_system, m.mount_path, m.read_only))]
    /\ UNCHANGED <<selvars, job, sync, scan, opsvars>>

\* the job takes the mount points and volumes of its mounts
CollectVolumes ==
    /\ vols.pc = "mounts"
    /\ Len(vols.built) = Len(vols.mounts)
    /\ vols' = [vols EXCEPT !.pc = "job"]
    /\ UNCHANGED <<selvars, job, sync, scan, opsvars>>

InitVols ==
    /\ SelectionIdle
    /\ OpsIdle
    /\ job = NoJob
    /\ sync = NoSync
    /\ vols \in { NewVols(ms) : ms \in SeqsUpTo(Mounts, MaxMounts) }
    /\ scan = NoScan

NextVols == BuildVolume \/ CollectVolumes

SpecVols == InitVols /\ [][NextVols]_vars

----------------------------------------------------------------------------
(* The outdated-path scanner (handlers/efs/operations.py,                  *)
(* OutdatedEFSPathScannerHandler.handle) on a small directory tree: the    *)
(* root holds the file a and the directory x with the files x/b and x/c.   *)
(* A node is named by its path below the root.                             *)

Root == << >>
Files == { <<"a">>, <<"x", "b">>, <<"x", "c">> }
Directories == { Root, <<"x">> }

FileSizes == {1, 5}
FileTimes == {1, 2, 7, 9}

\* the trees: a size and a time of last modification per file, and the
\* order in which a directory lists its children
Trees ==
    { [size |-> sz, last_modified |-> lm, reversed |-> rv] :
        sz \in [Files -> FileSizes], lm \in [Files -> FileTimes],
        rv \in BOOLEAN }

\* the files at or below a node
FilesBelow(n) == { f \in Files : Len(f) >= Len(n) /\ SubSeq(f, 1, Len(n)) = n }

Max(S) == CHOOSE x \in S : \A y \in S : y <= x

\* Node.size_bytes, Node.last_modified, Node.depth, Node.has_children,
\* Node.children.values()
size_bytes(tree, n) ==
    LET RECURSIVE Z(_)
        Z(F) == IF F = {} THEN 0
                ELSE LET f == CHOOSE g \in F : TRUE
                     IN  tree.size[f] + Z(F \ {f})
    IN  Z(FilesBelow(n))
last_modified(tree, n) == Max({ tree.last_modified[f] : f \in FilesBelow(n) })
depth(n) == Len(n)
has_children(n) == n \in Directories
children(tree, n) ==
    LET listed == IF n = Root THEN << <<"a">>, <<"x">> >>
                  ELSE IF n = <<"x">> THEN << <<"x", "b">>, <<"x", "c">> >>
                  ELSE << >>
    IN  IF tree.reversed
        THEN [i \in 1..Len(listed) |-> listed[Len(listed) + 1 - i]]
        ELSE listed

\* an Optional[int] of the request: no or one number
NoDepth == {}

\* OutdatedEFSPathScannerRequest
ScannerRequests ==
    { [ days_since_last_accessed |-> 3,
        current_time             |-> 10,
        min_depth                |-> mind,
        max_depth                |-> maxd,
        min_efs_size_bytes       |-> m ] :
        mind \in {NoDepth, {1}, {2}}, maxd \in {NoDepth, {1}}, m \in {0, 7} }

\* a pass that takes a node for stale from days_since_last_accessed days on
VisitNode_FromDaysOn(s) ==
    LET node == s.unvisited_nodes[Len(s.unvisited_nodes)]
        rest == SubSeq(s.unvisited_nodes, 1, Len(s.unvisited_nodes) - 1)
        rq   == s.request
        age  == rq.current_time - last_modified(s.tree, node)
    IN  IF age >= rq.days_since_last_accessed
        THEN IF \/ rq.min_depth = NoDepth
                \/ \E d \in rq.min_depth : depth(node) >= d
                \/ ~has_children(node)
             THEN [s EXCEPT !.unvisited_nodes = rest,
                            !.stale_nodes = Append(@, node)]
             ELSE [s EXCEPT !.unvisited_nodes = rest \o children(s.tree, node)]
        ELSE IF \/ rq.max_depth = NoDepth
                \/ \E d \in rq.max_depth : depth(node) < d
        THEN [s EXCEPT !.unvisited_nodes = rest \o children(s.tree, node)]
        ELSE [s EXCEPT !.unvisited_nodes = rest]

\* a pass that takes every stale node, whatever min_depth says
VisitNode_AnyDepth(s) ==
    LET node == s.unvisited_nodes[Len(s.unvisited_nodes)]
        rest == SubSeq(s.unvisited_nodes, 1, Len(s.unvisited_nodes) - 1)
        rq   == s.request
        age  == rq.current_time - last_modified(s.tree, node)
    IN  IF age > rq.days_since_last_accessed
        THEN [s EXCEPT !.unvisited_nodes = rest,
                       !.stale_nodes = Append(@, node)]
        ELSE IF \/ rq.max_depth = NoDepth
                \/ \E d \in rq.max_depth : depth(node) < d
        THEN [s EXCEPT !.unvisited_nodes = rest \o children(s.tree, node)]
        ELSE [s EXCEPT !.unvisited_nodes = rest]

\* a pass that goes on below a node it has taken
VisitNode_BelowStale(s) ==
    LET node == s.unvisited_nodes[Len(s.unvisited_nodes)]
        rest == SubSeq(s.unvisited_nodes, 1, Len(s.unvisited_nodes) - 1)
        rq   == s.request
        age  == rq.current_time - last_modified(s.tree, node)
    IN  IF age > rq.days_since_last_accessed
        THEN IF \/ rq.min_depth = NoDepth
                \/ \E d \in rq.min_depth : depth(node) >= d
                \/ ~has_children(node)
             THEN [s EXCEPT !.unvisited_nodes = rest \o children(s.tree, node),
                            !.stale_nodes = Append(@, node)]
             ELSE [s EXCEPT !.unvisited_nodes = rest \o children(s.tree, node)]
        ELSE IF \/ rq.max_depth = NoDepth
                \/ \E d \in rq.max_depth : depth(node) < d
        THEN [s EXCEPT !.unvisited_nodes = rest \o children(s.tree, node)]
        ELSE [s EXCEPT !.unvisited_nodes = rest]

\* lines 101-111: one pass of the loop over unvisited_nodes
VisitNode(s) ==
    LET node == s.unvisited_nodes[Len(s.unvisited_nodes)]
        rest == SubSeq(s.unvisited_nodes, 1, Len(s.unvisited_nodes) - 1)
        rq   == s.request
        age  == rq.current_time - last_modified(s.tree, node)
    IN  IF age > rq.days_since_last_accessed
        THEN IF \/ rq.min_depth = NoDepth
                \/ \E d \in rq.min_depth : depth(node) >= d
                \/ ~has_children(node)
             THEN [s EXCEPT !.unvisited_nodes = rest,
                            !.stale_nodes = Append(@, node)]
             ELSE [s EXCEPT !.unvisited_nodes = rest \o children(s.tree, node)]
        ELSE IF \/ rq.max_depth = NoDepth
                \/ \E d \in rq.max_depth : depth(node) < d
        THEN [s EXCEPT !.unvisited_nodes = rest \o children(s.tree, node)]
        ELSE [s EXCEPT !.unvisited_nodes = rest]

\* the stale nodes sorted the other way round, the newest at the end
sorted_oldest_first(tree, nodes) ==
    LET Insert(s, x) ==
            LET k == Cardinality({ i \in 1..Len(s) :
                        last_modified(tree, s[i]) <= last_modified(tree, x) })
            IN  SubSeq(s, 1, k) \o <<x>> \o SubSeq(s, k + 1, Len(s))
        RECURSIVE Sort(_)
        Sort(i) == IF i = 0 THEN << >> ELSE Insert(Sort(i - 1), nodes[i])
    IN  Sort(Len(nodes))

\* line 121: sorted(stale_nodes, key=lambda n: n.last_modified, reverse=True)
sorted_newest_first(tree, nodes) ==
    LET Insert(s, x) ==
            LET k == Cardinality({ i \in 1..Len(s) :
                        last_modified(tree, s[i]) >= last_modified(tree, x) })
            IN  SubSeq(s, 1, k) \o <<x>> \o SubSeq(s, k + 1, Len(s))
        RECURSIVE Sort(_)
        Sort(i) == IF i = 0 THEN << >> ELSE Insert(Sort(i - 1), nodes[i])
    IN  Sort(Len(nodes))

\* line 122: the condition of the loop over nodes_to_delete
KeepsDeleting(s) ==
    /\ s.nodes_to_delete # << >>
    /\ s.current_efs_size_bytes > s.request.min_efs_size_bytes

\* lines 123-125: one pass of the loop over nodes_to_delete
DeleteNode(s) ==
    LET node == s.nodes_to_delete[Len(s.nodes_to_delete)]
    IN  [s EXCEPT
           !.nodes_to_delete = SubSeq(@, 1, Len(@) - 1),
           !.paths_to_delete = Append(@, node),
           !.current_efs_size_bytes = @ - size_bytes(s.tree, node)]

NewScan(tree, request) ==
    [ pc                     |-> "visit",
      tree                   |-> tree,
      request                |-> request,
      unvisited_nodes        |-> <<Root>>,
      stale_nodes            |-> << >>,
      nodes_to_delete        |-> << >>,
      current_efs_size_bytes |-> 0,
      paths_to_delete        |-> << >>,
      response               |-> {} ]

\* step 1: a node is taken from unvisited_nodes
ScanVisit ==
    /\ scan.pc = "visit"
    /\ scan.unvisited_nodes # << >>
    /\ scan' = VisitNode(scan)
    /\ UNCHANGED <<selvars, job, sync, vols, opsvars>>

\* lines 117-121: the size of the volume is read and the stale nodes sorted
ScanSort ==
    /\ scan.pc = "visit"
    /\ scan.unvisited_nodes = << >>
    /\ scan' = [scan EXCEPT
                  !.pc = "delete",
                  !.current_efs_size_bytes = size_bytes(scan.tree, Root),
                  !.nodes_to_delete =
                      sorted_newest_first(scan.tree, scan.stale_nodes)]
    /\ UNCHANGED <<selvars, job, sync, vols, opsvars>>

\* step 2: the oldest node left is proposed for deletion
ScanDelete ==
    /\ scan.pc = "delete"
    /\ KeepsDeleting(scan)
    /\ scan' = DeleteNode(scan)
    /\ UNCHANGED <<selvars, job, sync, vols, opsvars>>

\* lines 127-130: the response holds the paths to delete
ScanReturn ==
    /\ scan.pc = "delete"
    /\ ~KeepsDeleting(scan)
    /\ scan' = [scan EXCEPT
                  !.pc = "returned",
                  !.response = {[paths |-> { scan.paths_to_delete[i] :
                                     i \in 1..Len(scan.paths_to_delete) }]}]
    /\ UNCHANGED <<selvars, job, sync, vols, opsvars>>

InitScan ==
    /\ SelectionIdle
    /\ OpsIdle
    /\ job = NoJob
    /\ sync = NoSync
    /\ vols = NoVols
    /\ scan \in { NewScan(tree, request) :
                    tree \in Trees, request \in ScannerRequests }

NextScan == ScanVisit \/ ScanSort \/ ScanDelete \/ ScanReturn

SpecScan == InitScan /\ [][NextScan]_vars

----------------------------------------------------------------------------
(* RemoveEFSPathsHandler (handlers/efs/operations.py) on a small file      *)
(* system: the EFS is mounted at /efs and holds the file b and the         *)
(* directory c with the files c/1 and c/2; the file /other/s lies outside  *)
(* the mount.  A path is the sequence of its components.                   *)

\* longest list of paths of one request
MaxPaths == 3

EfsMountPath == <<"efs">>

\* the files of the file system and their sizes in bytes
FileSizeBytes ==
    (<<"efs", "b">> :> 1) @@ (<<"efs", "c", "1">> :> 2)
        @@ (<<"efs", "c", "2">> :> 4) @@ (<<"other", "s">> :> 8)
AllFiles == DOMAIN FileSizeBytes
AllDirectories == { SubSeq(f, 1, k) : f \in AllFiles, k \in 0..2 } \ AllFiles

\* the paths a request may list: "/", b, c, c/1, a path that never existed,
\* and two paths with a step to the parent directory
ListedPaths ==
    { << >>, <<"b">>, <<"c">>, <<"c", "1">>, <<"gone">>,
      <<"c", "..", "b">>, <<"..", "other">> }

\* Path.resolve() on a file system without symbolic links: ".." steps to
\* the parent and stays at the root
RECURSIVE resolve(_)
resolve(p) ==
    IF p = << >> THEN << >>
    ELSE LET r == resolve(SubSeq(p, 1, Len(p) - 1))
             c == p[Len(p)]
         IN  IF c = ".."
             THEN IF r = << >> THEN << >> ELSE SubSeq(r, 1, Len(r) - 1)
             ELSE Append(r, c)

\* lines 27-29: Path(f"{efs_mount_path}/{path}").resolve()
sanitize_efs_path(path, efs_mount_path) == resolve(efs_mount_path \o path)

\* lines 155-166: every listed path is sanitized; the paths that do not
\* exist are logged and kept
sanitize_efs_paths(paths, efs_mount_path) ==
    [i \in 1..Len(paths) |-> sanitize_efs_path(paths[i], efs_mount_path)]

\* Path.exists()
exists(s, path) == path \in s.files \cup s.directories

\* the files at or below a path
FilesUnder(files, path) == { f \in files : Under(f, path) }

SumSizes(files) ==
    LET RECURSIVE Z(_)
        Z(F) == IF F = {} THEN 0
                ELSE LET f == CHOOSE g \in F : TRUE
                     IN  FileSizeBytes[f] + Z(F \ {f})
    IN  Z(files)

\* get_path_size_bytes(path) of a path that exists: the bytes of the files
\* at or below it
get_path_size_bytes_AsListed(s, path) == SumSizes(FilesUnder(AllFiles, path))
get_path_size_bytes(s, path) == SumSizes(FilesUnder(s.files, path))

\* remove_path(path) of a path that exists: the file, or the directory with
\* all below it, is gone
remove_path(s, path) ==
    [s EXCEPT !.files = { f \in @ : ~Under(f, path) },
              !.directories = { d \in @ : ~Under(d, path) }]

NewRemoval(paths) ==
    [ pc                 |-> "request",
      paths              |-> paths,
      efs_mount_path     |-> EfsMountPath,
      files              |-> AllFiles,
      directories        |-> AllDirectories,
      full_paths         |-> << >>,
      next               |-> 1,
      touched            |-> {},   \* the paths measured or removed
      warnings           |-> 0,    \* FileNotFoundError caught at line 151
      size_bytes_removed |-> 0,
      response           |-> {} ]

\* lines 137-144
SanitizePaths ==
    /\ rm.pc = "request"
    /\ rm' = [rm EXCEPT
                !.pc = "paths",
                !.full_paths = sanitize_efs_paths(rm.paths, rm.efs_mount_path)]
    /\ UNCHANGED <<selvars, job, sync, vols, scan, router, publish>>

\* lines 146-150 for a path that exists
RemovePath ==
    /\ rm.pc = "paths"
    /\ rm.next <= Len(rm.full_paths)
    /\ LET path == rm.full_paths[rm.next]
       IN  /\ exists(rm, path)
           /\ rm' = [remove_path(rm, path) EXCEPT
                       !.size_bytes_removed =
                           @ + get_path_size_bytes(rm, path),
                       !.touched = @ \cup {path},
                       !.next = @ + 1]
    /\ UNCHANGED <<selvars, job, sync, vols, scan, router, publish>>

\* lines 146-152 for a path that does not exist: get_path_size_bytes and
\* remove_path (aibs_informatics_core) either raise FileNotFoundError,
\* which line 151 catches, or find nothing to measure and to remove
SkipMissingPath ==
    /\ rm.pc = "paths"
    /\ rm.next <= Len(rm.full_paths)
    /\ LET path == rm.full_paths[rm.next]
       IN  /\ ~exists(rm, path)
           /\ \E raised \in BOOLEAN :
                 rm' = [rm EXCEPT
                          !.warnings = IF raised THEN @ + 1 ELSE @,
                          !.touched = @ \cup {path},
                          !.next = @ + 1]
    /\ UNCHANGED <<selvars, job, sync, vols, scan, router, publish>>

\* line 153
ReturnRemoved ==
    /\ rm.pc = "paths"
    /\ rm.next > Len(rm.full_paths)
    /\ rm' = [rm EXCEPT
                !.pc = "returned",
                !.response = {[size_bytes_removed |-> rm.size_bytes_removed]}]
    /\ UNCHANGED <<selvars, job, sync, vols, scan, router, publish>>

InitRemove ==
    /\ SelectionIdle
    /\ job = NoJob
    /\ sync = NoSync
    /\ vols = NoVols
    /\ scan = NoScan
    /\ rm \in { NewRemoval(paths) : paths \in SeqsUpTo(ListedPaths, MaxPaths) }
    /\ router = NoRouter
    /\ publish = NoPublish

NextRemove == SanitizePaths \/ RemovePath \/ SkipMissingPath \/ ReturnRemoved

SpecRemove == InitRemove /\ [][NextRemove]_vars

----------------------------------------------------------------------------
(* Notification dispatch: NotificationRouter.handle                        *)
(* (handlers/notifications/router.py) over its notifiers, and              *)
(* NotificationLambdaHandler.handle (handlers/notifications/base.py) over  *)
(* its publishers.  A notifier or publisher is named by its class; the     *)
(* delivery itself (SES, SNS) succeeds or fails as the service decides.    *)

\* longest list of notifiers or publishers given to a handler
MaxHandlers == 2

\* longest list of targets or publish requests of one request
MaxTargets == 2

SESNotifier == "SESNotifier"
SNSNotifier == "SNSNotifier"
Notifiers == {SESNotifier, SNSNotifier}

\* Notifier.notifier_target_class()
notifier_target_class(notifier) ==
    IF notifier = SESNotifier THEN "SESEmailTarget" ELSE "SNSTopicTarget"

TargetClasses == { notifier_target_class(n) : n \in Notifiers }

\* a target is an object of a target class, or a dict together with the
\* target classes whose from_dict accepts it
TypedTarget(class) == [class |-> class, loads |-> {class}]
DictTarget(loads) == [class |-> "dict", loads |-> loads]
Targets ==
    { TypedTarget(c) : c \in TargetClasses }
        \cup { DictTarget(l) : l \in SUBSET TargetClasses }

\* router.py 44-48: the default notifiers stand in for an empty list
DefaultNotifiers == <<SESNotifier, SNSNotifier>>
post_init_notifiers(notifiers) ==
    IF notifiers = << >> THEN DefaultNotifiers ELSE notifiers

\* Notifier.parse_target (notifiers/base.py 65-84): the target itself, the
\* target loaded from a dict, or an exception
parse_target(notifier, target) ==
    LET class == notifier_target_class(notifier)
    IN  IF target.class = class THEN [target |-> target]
        ELSE IF target.class = "dict"
        THEN IF class \in target.loads
             THEN [target |-> TypedTarget(class)]
             ELSE [raised |-> "ValidationError"]
        ELSE [raised |-> "ValueError"]

\* router.py 65-70: the else branch of the try is taken
Parses(notifier, target) ==
    "target" \in DOMAIN parse_target(notifier, target)

\* NotifierResult
NotifierResult(target, success, response) ==
    [target |-> target, success |-> success, response |-> response]

\* router.py 73: break, the loop over the targets goes on
NotifierBreak_TryNext(s) == [s EXCEPT !.pc = "notifiers", !.n = @ + 1]
NotifierBreak(s) == [s EXCEPT !.pc = "notifiers", !.t = @ + 1, !.n = 1]

NewRouter(notifiers, targets) ==
    [ pc        |-> "notifiers",
      notifiers |-> post_init_notifiers(notifiers),
      targets   |-> targets,
      t         |-> 1,        \* the target of the outer loop
      n         |-> 1,        \* the notifier of the inner loop
      results   |-> << >>,
      parsed    |-> {},       \* history: <<t, n>> of the calls of parse_target
      notified  |-> << >>,    \* history: the calls of notify and their results
      error     |-> None,
      response  |-> {} ]

\* router.py 64-71: the next notifier is asked to parse the target
TryNotifier ==
    /\ router.pc = "notifiers"
    /\ router.t <= Len(router.targets)
    /\ router.n <= Len(router.notifiers)
    /\ router' =
          [router EXCEPT
             !.parsed = @ \cup {<<router.t, router.n>>},
             !.pc = IF Parses(router.notifiers[router.n],
                              router.targets[router.t])
                    THEN "notify" ELSE "notifiers",
             !.n  = IF Parses(router.notifiers[router.n],
                              router.targets[router.t])
                    THEN @ ELSE @ + 1]
    /\ UNCHANGED <<selvars, job, sync, vols, scan, rm, publish>>

\* router.py 72-73: the notifier delivers, its result is not kept
Notify ==
    /\ router.pc = "notify"
    /\ \E success \in BOOLEAN :
          LET notifier == router.notifiers[router.n]
              target   == parse_target(notifier,
                                       router.targets[router.t]).target
              result   == NotifierResult(target, success, notifier)
          IN  router' = NotifierBreak(
                  [router EXCEPT
                     !.notified = Append(@, [t |-> router.t, n |-> router.n,
                                             result |-> result])])
    /\ UNCHANGED <<selvars, job, sync, vols, scan, rm, publish>>

\* router.py 74-82: no notifier parsed the target; target.to_dict() is an
\* AttributeError on a dict
NoNotifier ==
    /\ router.pc = "notifiers"
    /\ router.t <= Len(router.targets)
    /\ router.n > Len(router.notifiers)
    /\ LET target == router.targets[router.t]
       IN  router' =
             IF target.class = "dict"
             THEN [router EXCEPT !.pc = "raised", !.error = "AttributeError"]
             ELSE [router EXCEPT
                     !.results = Append(@, NotifierResult(target, FALSE,
                                     "No notifier could handle target")),
                     !.t = @ + 1,
                     !.n = 1]
    /\ UNCHANGED <<selvars, job, sync, vols, scan, rm, publish>>

\* router.py 83
RouterReturn ==
    /\ router.pc = "notifiers"
    /\ router.t > Len(router.targets)
    /\ router' = [router EXCEPT
                    !.pc = "returned",
                    !.response = {[results |-> router.results]}]
    /\ UNCHANGED <<selvars, job, sync, vols, scan, rm, publish>>

SESPublisher == "SESPublisher"
SNSPublisher == "SNSPublisher"
Publishers == {SESPublisher, SNSPublisher}

\* PublishRequestType
PublishRequestTypes == {"SES", "SNS"}

\* base.py 50-53: the default publishers stand in for an empty list
DefaultPublishers == <<SESPublisher, SNSPublisher>>
post_init_publishers(publishers) ==
    IF publishers = << >> THEN DefaultPublishers ELSE publishers

\* SESPublisher.should_handle, SNSPublisher.should_handle
should_handle(publisher, request_type) ==
    IF publisher = SESPublisher THEN request_type = "SES"
    ELSE request_type = "SNS"

\* PublishResponse
PublishResponse(response, success, publisher) ==
    [response |-> response, success |-> success, publisher |-> publisher]

NewPublish(publishers, publish_requests) ==
    [ pc               |-> "publishers",
      publishers       |-> post_init_publishers(publishers),
      publish_requests |-> publish_requests,
      t                |-> 1,       \* the publish request of the outer loop
      n                |-> 1,       \* the publisher of the inner loop
      responses        |-> << >>,
      asked            |-> {},      \* history: <<t, n>> of should_handle
      published        |-> << >>,   \* history: the calls of publish
      error            |-> None,
      response         |-> {} ]

\* base.py 59-60 for a publisher that does not handle the request
SkipPublisher ==
    /\ publish.pc = "publishers"
    /\ publish.t <= Len(publish.publish_requests)
    /\ publish.n <= Len(publish.publishers)
    /\ ~should_handle(publish.publishers[publish.n],
                      publish.publish_requests[publish.t])
    /\ publish' = [publish EXCEPT
                     !.asked = @ \cup {<<publish.t, publish.n>>},
                     !.n = @ + 1]
    /\ UNCHANGED <<selvars, job, sync, vols, scan, rm, router>>

\* base.py 60-63: the publisher handles the request, its response is kept,
\* and the loop over the publishers is left
Publish ==
    /\ publish.pc = "publishers"
    /\ publish.t <= Len(publish.publish_requests)
    /\ publish.n <= Len(publish.publishers)
    /\ should_handle(publish.publishers[publish.n],
                     publish.publish_requests[publish.t])
    /\ \E success \in BOOLEAN :
          publish' =
            [publish EXCEPT
               !.asked = @ \cup {<<publish.t, publish.n>>},
               !.published = Append(@, [t |-> publish.t, n |-> publish.n]),
               !.responses = Append(@, PublishResponse("sent", success,
                                         publish.publishers[publish.n])),
               !.t = @ + 1,
               !.n = 1]
    /\ UNCHANGED <<selvars, job, sync, vols, scan, rm, router>>

\* base.py 64-69: no publisher handles the request; PublishResponse has no
\* field notifer, so building the response is a TypeError
Unhandled ==
    /\ publish.pc = "publishers"
    /\ publish.t <= Len(publish.publish_requests)
    /\ publish.n > Len(publish.publishers)
    /\ publish' = [publish EXCEPT !.pc = "raised", !.error = "TypeError"]
    /\ UNCHANGED <<selvars, job, sync, vols, scan, rm, router>>

\* base.py 71-75: ApplicationException if a response is a failure
PublishReturn ==
    /\ publish.pc = "publishers"
    /\ publish.t > Len(publish.publish_requests)
    /\ publish' =
          IF \E i \in 1..Len(publish.responses) : ~publish.responses[i].success
          THEN [publish EXCEPT !.pc = "raised",
                               !.error = "ApplicationException"]
          ELSE [publish EXCEPT
                  !.pc = "returned",
                  !.response = {[responses |-> publish.responses]}]
    /\ UNCHANGED <<selvars, job, sync, vols, scan, rm, router>>

\* one run of the router, or one run of a handler with publishers
InitNotify ==
    /\ SelectionIdle
    /\ job = NoJob
    /\ sync = NoSync
    /\ vols = NoVols
    /\ scan = NoScan
    /\ rm = NoRemoval
    /\ \/ /\ router \in { NewRouter(ns, ts) :
                            ns \in SeqsUpTo(Notifiers, MaxHandlers),
                            ts \in SeqsUpTo(Targets, MaxTargets) }
          /\ publish = NoPublish
       \/ /\ router = NoRouter
          /\ publish \in { NewPublish(ps, rs) :
                             ps \in SeqsUpTo(Publishers, MaxHandlers),
                             rs \in SeqsUpTo(PublishRequestTypes, MaxTargets) }

NextNotify ==
    \/ TryNotifier \/ Notify \/ NoNotifier \/ RouterReturn
    \/ SkipPublisher \/ Publish \/ Unhandled \/ PublishReturn

SpecNotify == InitNotify /\ [][NextNotify]_vars

----------------------------------------------------------------------------
(* Properties of select_file_system *)

Ended == frame.pc \in {"returned", "raised"}
Given == frame.given
NumGiven == Len(frame.given)

HasNoId(c) == ~Truthy(c.file_system) /\ ~Truthy(c.access_point)
AccessPointOnly(c) == ~Truthy(c.file_system) /\ Truthy(c.access_point)

\* the file system a candidate stands for, None when it has none
ResolvedFs(c) ==
    IF Truthy(c.file_system) THEN c.file_system
    ELSE IF Truthy(c.access_point) THEN efs.access_points[c.access_point]
    ELSE None

Resolves(c) == ResolvedFs(c) \in FsIds
UsedBytes(c) == efs.file_systems[ResolvedFs(c)]

LeastUtilizedCase ==
    frame.selection_strategy = LEAST_UTILIZED /\ NumGiven >= 2

\* C1: with two or more candidates, LEAST_UTILIZED returns a candidate whose
\* file system reports the smallest used-bytes value of all candidates that
\* resolve to a file system, and of the candidates tied at that value it
\* returns the one that comes first in the list; it does return when every
\* candidate resolves.
C1_LeastUtilizedFirstSmallest ==
    (Ended /\ LeastUtilizedCase) =>
        /\ (\A i \in 1..NumGiven : Resolves(Given[i])) => frame.pc = "returned"
        /\ frame.pc = "returned" =>
              /\ frame.result \in 1..NumGiven
              /\ Resolves(Given[frame.result])
              /\ \A j \in 1..NumGiven :
                    Resolves(Given[j]) =>
                        /\ UsedBytes(Given[frame.result]) <= UsedBytes(Given[j])
                        /\ j < frame.result =>
                              UsedBytes(Given[frame.result]) < UsedBytes(Given[j])

\* used bytes 2000, 1000, 1000 in this order: the second candidate is returned
C1_Witness ==
    /\ frame.pc = "returned" /\ LeastUtilizedCase /\ NumGiven = 3
    /\ \A i \in 1..3 : Resolves(Given[i])
    /\ UsedBytes(Given[1]) = 2000
    /\ UsedBytes(Given[2]) = 1000
    /\ UsedBytes(Given[3]) = 1000
    /\ frame.result = 2

\* C2: once a RANDOM call with seed S has returned a candidate of the list,
\* every later RANDOM call with seed S on that list returns the same
\* candidate, whatever calls and draws happened in between.
C2_SeededRandomReproducible ==
    [][\A s \in Seeds :
          seeded[s].calls > 0 => seeded'[s].result = seeded[s].result]_vars

\* one seed used twice and the other seed used in between, on two or more
\* candidates, the two seeds selecting different candidates
C2_Witness ==
    /\ Len(frame.file_system_configurations) >= 2
    /\ seeded["123"].calls = 2
    /\ seeded["456"].calls >= 1
    /\ seeded["123"].result # seeded["456"].result

\* C4: a list of exactly one candidate is answered with that candidate, for
\* every strategy and whatever ids the candidate has, without any lookup.
C4_SingleCandidateReturned ==
    (NumGiven = 1 /\ frame.pc \notin {"call", "idle"}) =>
        /\ frame.pc = "returned"
        /\ frame.result = 1
        /\ \A f \in FsIds : frame.fs_calls[f] = 0
        /\ \A a \in ApIds : frame.ap_calls[a] = 0
        /\ frame.file_system_configurations = Given

C4_Witness ==
    /\ NumGiven = 1 /\ frame.pc = "returned"
    /\ frame.selection_strategy = LEAST_UTILIZED
    /\ HasNoId(Given[1])

\* C5: an empty list is answered with ValueError for every strategy, and no
\* candidate is returned.
C5_EmptyListRaises ==
    (NumGiven = 0 /\ frame.pc \notin {"call", "idle"}) =>
        /\ frame.pc = "raised"
        /\ frame.error = "ValueError"
        /\ frame.result = 0

C5_Witness ==
    /\ NumGiven = 0 /\ frame.pc = "raised"
    /\ frame.selection_strategy = RANDOM

\* C6: under LEAST_UTILIZED with two or more candidates, a candidate with
\* neither a file-system id nor an access-point id, at any position, makes
\* the call fail with ValueError and return no candidate.
C6_MissingIdsRaise ==
    (Ended /\ LeastUtilizedCase /\ \E i \in 1..NumGiven : HasNoId(Given[i])) =>
        /\ frame.pc = "raised"
        /\ frame.error = "ValueError"
        /\ frame.result = 0

\* the candidate without ids stands last, behind one that resolves to the
\* least used file system
C6_Witness ==
    /\ Ended /\ LeastUtilizedCase
    /\ HasNoId(Given[NumGiven])
    /\ \A i \in 1..(NumGiven - 1) : Resolves(Given[i])
    /\ frame.fs_calls["fs-1"] = 1

\* C7: one selection fetches the description of a file system at most once,
\* however many candidates refer to it, directly or through an access point.
C7_DescriptionFetchedOnce ==
    \A f \in FsIds : frame.fs_calls[f] <= 1

\* three candidates of one file system, one of them through an access point
C7_Witness ==
    /\ frame.pc = "returned" /\ LeastUtilizedCase /\ NumGiven = 3
    /\ \E f \in FsIds :
          /\ \A i \in 1..3 : ResolvedFs(Given[i]) = f
          /\ \E i \in 1..3 : AccessPointOnly(Given[i])
          /\ \E i \in 1..3 : Truthy(Given[i].file_system)
          /\ frame.fs_calls[f] = 1

\* C8: a call leaves the list as it was given, except that LEAST_UTILIZED on
\* two or more candidates sets the file-system id of a candidate that came
\* with an access-point id only to what that access point reports as its
\* file system; when it returns, it has done so for every such candidate.
C8_OnlyAccessPointOnlyIdsChange ==
    LET now == frame.file_system_configurations
    IN  /\ Len(now) = NumGiven
        /\ \A i \in 1..NumGiven :
              /\ now[i].access_point = Given[i].access_point
              /\ now[i].container_path = Given[i].container_path
              /\ now[i].file_system # Given[i].file_system =>
                    /\ LeastUtilizedCase
                    /\ AccessPointOnly(Given[i])
                    /\ now[i].file_system =
                          efs.access_points[Given[i].access_point]
              /\ (frame.pc = "returned" /\ LeastUtilizedCase
                    /\ AccessPointOnly(Given[i])) =>
                    now[i].file_system =
                        efs.access_points[Given[i].access_point]

\* a returned LEAST_UTILIZED call that filled in an id, next to a candidate
\* that came with both ids and whose access point belongs to another file
\* system
C8_Witness ==
    /\ frame.pc = "returned" /\ LeastUtilizedCase
    /\ \E i, j \in 1..NumGiven :
          /\ AccessPointOnly(Given[i])
          /\ frame.file_system_configurations[i].file_system \in FsIds
          /\ Truthy(Given[j].file_system) /\ Truthy(Given[j].access_point)
          /\ Given[j].file_system # efs.access_points[Given[j].access_point]

----------------------------------------------------------------------------
(* Properties of the scaffolding handler *)

\* C3: a request whose shared or scratch list is empty is rejected with
\* ValueError when its file-system configuration is constructed: no
\* selection and no lookup has been made, and nothing is produced.
C3_EmptyRoleRejected ==
    \A p \in Procs :
        (inv[p].pc # "event"
            /\ (inv[p].request.shared = << >> \/ inv[p].request.scratch = << >>))
        => /\ inv[p].pc = "rejected"
           /\ inv[p].error = "ValueError"
           /\ inv[p].n_select = 0
           /\ inv[p].n_lookup = 0
           /\ inv[p].response = {}
           /\ \A r \in Roles : inv[p].vol[r] = {}

\* a request with shared candidates and an empty scratch list, rejected
\* while the other invocation has completed its scaffolding
C3_Witness ==
    \E p, q \in Procs :
        /\ inv[p].pc = "rejected"
        /\ inv[p].request.scratch = << >>
        /\ inv[p].request.shared # << >>
        /\ inv[q].pc = "done"

\* C9: when invocations are interleaved in one process, each RANDOM
\* invocation that completes has selected, for every role, the candidate
\* that its own execution id and candidate list determine.
C9_InterleavedSelectionReproducible ==
    \A p \in Procs :
        (inv[p].pc = "done" /\ inv[p].request.selection_strategy = RANDOM) =>
            \A r \in Roles :
                inv[p].selected[r] # 0 =>
                    inv[p].selected[r] =
                        randbelow(seed(0, inv[p].request.execution_id),
                                  Len(inv[p].request[r])) + 1

\* C10: in a completed scaffolding the shared volume is read-only and the
\* scratch volume is read-write, each built from the candidate selected
\* for its role; a tmp volume exists exactly when tmp candidates were
\* given, and it is read-write.
C10_SharedReadOnlyOthersWritable ==
    \A p \in Procs :
        inv[p].pc = "done" =>
            /\ \A r \in {"scratch", "shared"} : Cardinality(inv[p].vol[r]) = 1
            /\ Cardinality(inv[p].vol["tmp"]) =
                  IF inv[p].request.tmp # << >> THEN 1 ELSE 0
            /\ \A r \in Roles : \A v \in inv[p].vol[r] :
                  /\ v.read_only = (r = "shared")
                  /\ inv[p].selected[r] \in 1..Len(inv[p].request[r])
                  /\ v.file_system =
                        inv[p].request[r][inv[p].selected[r]].file_system
                  /\ v.access_point =
                        inv[p].request[r][inv[p].selected[r]].access_point

\* one completed scaffolding with a tmp volume and one without
C10_Witness ==
    \E p, q \in Procs :
        /\ inv[p].pc = "done" /\ inv[p].vol["tmp"] # {}
        /\ inv[p].request.selection_strategy = LEAST_UTILIZED
        /\ inv[q].pc = "done" /\ inv[q].vol["tmp"] = {}
        /\ Len(inv[q].request.shared) >= 2

----------------------------------------------------------------------------
(* Properties of the batch job *)

JobVariables == <<ExecutionIdVariable>> \o job.params
EnvironmentSet == { job.environment[i] : i \in 1..Len(job.environment) }
EnvironmentNames == { v.name : v \in EnvironmentSet }
EnvironmentReady == job.pc \in {"environment", "built"}
FileWritten == job.file # {}
SourcesFile ==
    \E c \in job.final : \E i \in 1..Len(c.steps) :
        c.steps[i] = SourceEnvironmentFile
AllInline == \A i \in 1..Len(JobVariables) : JobVariables[i] \in EnvironmentSet

\* C11: in IF_REQUIRED mode the environment file is written exactly when the
\* serialized size of the variables is at least 8192 bytes: below, no file
\* is written and the variables stay inline; from 8192 bytes on, the file
\* is written and the command sources it.
C11_IfRequiredThreshold ==
    (job.mode = IF_REQUIRED /\ EnvironmentReady) =>
        /\ FileWritten <=> EnvironmentSize(job.params) >= 8192
        /\ EnvironmentSize(job.params) < 8192 =>
               /\ AllInline
               /\ job.pc = "built" => ~SourcesFile
        /\ EnvironmentSize(job.params) >= 8192 =>
               /\ job.pc = "built" => SourcesFile

\* a built IF_REQUIRED job whose variables take exactly 8192 bytes
C11_Witness ==
    /\ job.pc = "built"
    /\ job.mode = IF_REQUIRED
    /\ EnvironmentSize(job.params) = 8192
    /\ FileWritten
    /\ SourcesFile

InfrastructureNames ==
    { InfrastructureEnvironment[i].name : i \in 1..Len(InfrastructureEnvironment) }
ParamSet == { job.params[i] : i \in 1..Len(job.params) }
FileText == CHOOSE t \in job.file : TRUE

\* the text has the export line of v in it
InFile(v) ==
    LET line == ExportLine(v)
    IN  \E k \in 0..(Len(FileText) - Len(line)) :
            SubSeq(FileText, k + 1, k + Len(line)) = line

AlwaysCase == job.mode = ALWAYS /\ EnvironmentReady

\* the pointer variable is in the environment and names the written file
PointsAtFile == FileWritten /\ EnvironmentFileVariable \in EnvironmentSet

\* C12 as stated: in ALWAYS mode the container environment contains none of
\* the job's own variables, only infrastructure variables and
\* _ENVIRONMENT_FILE, which points at the written file, and every job
\* variable is found in the file.
C12_NoJobVariableInline ==
    AlwaysCase =>
        /\ PointsAtFile
        /\ EnvironmentNames = InfrastructureNames \cup {ENVIRONMENT_FILE}
        /\ \A v \in ParamSet : InFile(v)

\* C12 amended: in ALWAYS mode the container environment holds the
\* infrastructure variables, _ENVIRONMENT_FILE, which points at the written
\* file, and those variables of the job that the command refers to as
\* ${NAME}; every other variable of the job, and EXECUTION_ID, is found in
\* the file instead.
C12_OnlyReferencedInline ==
    AlwaysCase =>
        /\ PointsAtFile
        /\ EnvironmentSet =
               { v \in ParamSet : v.name[1].ch \in Referenced(job.command) }
               \cup { InfrastructureEnvironment[i] :
                        i \in 1..Len(InfrastructureEnvironment) }
               \cup { EnvironmentFileVariable }
        /\ InFile(ExecutionIdVariable)
        /\ \A v \in ParamSet :
               v.name[1].ch \notin Referenced(job.command) => InFile(v)
        /\ \A v \in ParamSet :
               v.name[1].ch \in Referenced(job.command) => ~InFile(v)

\* an ALWAYS job with one variable the command refers to and one it does not
C12_Witness ==
    /\ job.mode = ALWAYS
    /\ job.pc = "built"
    /\ \E v, w \in ParamSet :
          /\ v.name[1].ch \in Referenced(job.command)
          /\ v \in EnvironmentSet
          /\ w.name[1].ch \notin Referenced(job.command)
          /\ w \notin EnvironmentSet
          /\ InFile(w)

\* C13: in NEVER mode no environment file is written, whatever the size of
\* the variables: all variables, EXECUTION_ID included, are passed inline,
\* _ENVIRONMENT_FILE is absent and no step of the command sources a file.
C13_NeverWritesNoFile ==
    (job.mode = NEVER /\ EnvironmentReady) =>
        /\ ~FileWritten
        /\ AllInline
        /\ ENVIRONMENT_FILE \notin EnvironmentNames
        /\ job.pc = "built" => ~SourcesFile

\* a built NEVER job whose variables take more than 8192 bytes
C13_Witness ==
    /\ job.mode = NEVER
    /\ job.pc = "built"
    /\ EnvironmentSize(job.params) > 8192
    /\ ~FileWritten
    /\ ExecutionIdVariable \in EnvironmentSet

\* text.split("\n")
SplitLines(t) ==
    LET RECURSIVE S(_, _, _)
        S(i, line, lines) ==
            IF i > Len(t) THEN Append(lines, line)
            ELSE IF t[i].ch = "\n" THEN S(i + 1, << >>, Append(lines, line))
            ELSE S(i + 1, Append(line, t[i]), lines)
    IN  S(1, << >>, << >>)

\* the place of the first "=" of a line, 0 when there is none
FirstEquals(line) ==
    IF \E i \in 1..Len(line) : line[i].ch = "="
    THEN CHOOSE i \in 1..Len(line) :
             /\ line[i].ch = "="
             /\ \A j \in 1..(i - 1) : line[j].ch # "="
    ELSE 0

\* a line of the form export NAME="VALUE"
IsExportLine(line) ==
    LET e == FirstEquals(line)
    IN  /\ Len(line) >= 5
        /\ line[1].ch = "export "
        /\ e >= 3
        /\ Len(line) >= e + 2
        /\ line[e + 1].ch = "\""
        /\ line[Len(line)].ch = "\""

ParseExportLine(line) ==
    LET e == FirstEquals(line)
    IN  [ name  |-> SubSeq(line, 2, e - 1),
          value |-> SubSeq(line, e + 2, Len(line) - 1) ]

\* the variables read back from a text, in the order of its export lines
ParseExportLines(t) ==
    LET lines == SplitLines(t)
        parsed == [i \in 1..Len(lines) |->
                     IF IsExportLine(lines[i])
                     THEN <<ParseExportLine(lines[i])>> ELSE << >>]
        RECURSIVE Flat(_)
        Flat(i) == IF i = 0 THEN << >> ELSE Flat(i - 1) \o parsed[i]
    IN  Flat(Len(lines))

WithoutExecutionId(variables) ==
    LET Other(v) == v.name # EXECUTION_ID
    IN  SelectSeq(variables, Other)

HasLineBreak(value) == \E i \in 1..Len(value) : value[i].ch = "\n"

FinalCommand == CHOOSE c \in job.final : TRUE

\* C15: the final container command consists of these steps in this order:
\* create the working directory, create the tmp directory, change into the
\* working directory, source the environment file, run the original
\* command; the source step is there exactly when an environment file was
\* written, and the original command keeps its placeholders unsubstituted.
C15_CommandSteps ==
    job.pc = "built" =>
        LET steps == FinalCommand.steps
            n     == Len(steps)
        IN  /\ FinalCommand.shell = <<"/bin/bash", "-c">>
            /\ n = IF FileWritten THEN 5 ELSE 4
            /\ steps[1] = << <<Literal("mkdir")>>, <<Literal("-p")>>,
                             <<Placeholder("WORKING_DIR")>> >>
            /\ steps[2] = << <<Literal("mkdir")>>, <<Literal("-p")>>,
                             <<Placeholder("TMPDIR")>> >>
            /\ steps[3] = << <<Literal("cd")>>, <<Placeholder("WORKING_DIR")>> >>
            /\ FileWritten =>
                   steps[4] = << <<Literal(".")>>,
                                 <<Placeholder("_ENVIRONMENT_FILE")>> >>
            /\ steps[n] = job.command
            /\ SourcesFile <=> FileWritten

\* a built job without a file: four steps, the last with its placeholders
C15_Witness ==
    /\ job.pc = "built"
    /\ ~FileWritten
    /\ Len(FinalCommand.steps) = 4
    /\ Len(job.params) = 2
    /\ Referenced(FinalCommand.steps[4]) = {"ENV_BASE", "A", "B"}

----------------------------------------------------------------------------
(* Properties of the parameters and data-sync requests *)

InputsUpdated == sync.pc \in {"inputs", "ready", "requested"}
SyncInputs == { i \in 1..Len(sync.params) : sync.params[i].kind = "input" }

\* C16 as stated: with isolate_inputs=true every rewritten input destination
\* lies under the working path and none lies under the shared path; with
\* isolate_inputs=false every one lies under the shared path.
C16_IsolatedInputsNeverUnderShared ==
    InputsUpdated =>
        \A i \in SyncInputs :
            IF sync.isolate_inputs
            THEN /\ Under(sync.params[i].value, sync.working)
                 /\ ~Under(sync.params[i].value, sync.shared)
            ELSE Under(sync.params[i].value, sync.shared)

\* C16 amended: with isolate_inputs=true every rewritten input destination
\* lies under the working path, and none lies under the shared path unless
\* the working path itself lies under the shared path; with
\* isolate_inputs=false every one lies under the shared path.
C16_IsolatedInputsUnderWorking ==
    InputsUpdated =>
        \A i \in SyncInputs :
            IF sync.isolate_inputs
            THEN /\ Under(sync.params[i].value, sync.working)
                 /\ ~Under(sync.working, sync.shared) =>
                        ~Under(sync.params[i].value, sync.shared)
            ELSE Under(sync.params[i].value, sync.shared)

\* an isolated input of an execution whose working path is not under the
\* shared path: it has landed in the working directory under its local path
C16_Witness ==
    /\ InputsUpdated
    /\ sync.isolate_inputs
    /\ ~Under(sync.working, sync.shared)
    /\ \E i \in SyncInputs :
          /\ sync.given[i].local # NoLocal
          /\ sync.params[i].value = sync.working \o sync.given[i].local
          /\ ~Under(sync.params[i].value, sync.shared)

PostRequested == sync.pc = "requested"

\* the outputs, in the order they are declared
DeclaredOutputs ==
    LET IsOutput(p) == p.kind = "output"
    IN  SelectSeq(sync.given, IsOutput)

----------------------------------------------------------------------------
(* Properties of the volumes of a job *)

\* the pair (file-system id, mount path) of the i-th mount of the job
MountPair(i) ==
    <<vols.built[i].volume.fileSystemId, vols.built[i].mount_point.containerPath>>

\* C18: the volume name of a mount depends only on the pair (file-system
\* id, mount path), and two different pairs used in the same job never get
\* the same volume name.
C18_VolumeNamesDistinct ==
    vols.pc = "job" =>
        \A i, j \in 1..Len(vols.built) :
            MountPair(i) = MountPair(j) <=>
                vols.built[i].volume.name = vols.built[j].volume.name

----------------------------------------------------------------------------
(* Properties of the handler's deserialization *)

\* C19: a malformed request payload is rejected while the event is
\* deserialized, before the handle step runs and so before any file-system
\* selection or external lookup is made.
C19_MalformedRejectedBeforeHandle ==
    \A p \in Procs :
        ~WellFormed(inv[p].request) =>
            /\ inv[p].pc \in {"event", "rejected"}
            /\ inv[p].pc = "rejected" => inv[p].error # None
            /\ inv[p].n_select = 0
            /\ inv[p].n_lookup = 0
            /\ inv[p].response = {}

\* a malformed event has been rejected while the other invocation of the
\* process has selected its file systems
C19_Witness ==
    \E p, q \in Procs :
        /\ ~WellFormed(inv[p].request)
        /\ inv[p].pc = "rejected"
        /\ inv[q].pc = "done"
        /\ inv[q].n_select > 0

----------------------------------------------------------------------------
(* Properties of the outdated-path scanner *)

ScannedSize == size_bytes(scan.tree, Root)
ReturnedPaths == UNION { r.paths : r \in scan.response }
ReturnedSize ==
    LET RECURSIVE Z(_)
        Z(P) == IF P = {} THEN 0
                ELSE LET n == CHOOSE m \in P : TRUE
                     IN  size_bytes(scan.tree, n) + Z(P \ {n})
    IN  Z(ReturnedPaths)

\* C20: the scanner never proposes deletions that make the EFS too small:
\* the scanned size minus the total size of all returned paths is at least
\* min_efs_size_bytes whenever the scanned size was at least
\* min_efs_size_bytes to begin with.
C20_DeletionsKeepMinimumSize ==
    (scan.pc = "returned"
       /\ ScannedSize >= scan.request.min_efs_size_bytes) =>
        ScannedSize - ReturnedSize >= scan.request.min_efs_size_bytes

Nodes == Directories \cup Files
Age(n) == scan.request.current_time - last_modified(scan.tree, n)
Outdated(n) == Age(n) > scan.request.days_since_last_accessed
SeqRange(s) == { s[i] : i \in 1..Len(s) }
StaleNodes == SeqRange(scan.stale_nodes)
Returned == scan.pc = "returned"

\* C21: every path the scanner returns belongs to a node whose time of last
\* modification lies more than days_since_last_accessed before current_time;
\* a node that is not that old is never taken for stale, proposed for
\* deletion or returned.
C21_ReturnedPathsAreOutdated ==
    scan.pc # "none" =>
        /\ \A n \in StaleNodes : Outdated(n)
        /\ \A n \in SeqRange(scan.paths_to_delete) : Outdated(n)
        /\ \A n \in ReturnedPaths : Outdated(n)

\* the scanner has returned a path next to a file that is exactly
\* days_since_last_accessed old and is not returned
C21_Witness ==
    /\ Returned
    /\ ReturnedPaths # {}
    /\ \E f \in Files :
          /\ Age(f) = scan.request.days_since_last_accessed
          /\ f \notin ReturnedPaths

\* C22: when max_depth = M is given, the scanner does not look below depth
\* M: no node waiting to be visited and no returned path lies more than M
\* levels below the scanned root.
C22_NothingBelowMaxDepth ==
    scan.pc # "none" =>
        \A M \in scan.request.max_depth :
            /\ \A n \in SeqRange(scan.unvisited_nodes) : depth(n) <= M
            /\ \A n \in ReturnedPaths : depth(n) <= M

\* the node the next pass of step 1 takes, and the nodes left waiting
NextNode == scan.unvisited_nodes[Len(scan.unvisited_nodes)]
Waiting == SubSeq(scan.unvisited_nodes, 1, Len(scan.unvisited_nodes) - 1)
Visiting == scan.pc = "visit" /\ scan.unvisited_nodes # << >>
AboveMinDepth(n) == \E D \in scan.request.min_depth : has_children(n) /\ depth(n) < D

\* C23: when min_depth = D is given, a stale directory that has children and
\* lies fewer than D levels below the scanned root is never taken or returned
\* itself: the pass that visits it puts its children on the list of nodes to
\* visit instead; a stale node without children is taken at whatever depth
\* it is visited, and returned when the size floor does not hold it back.
C23_MinDepthDescends ==
    /\ [](scan.pc # "none" =>
            /\ \A n \in StaleNodes \cup ReturnedPaths : ~AboveMinDepth(n)
            /\ (Returned /\ scan.request.min_efs_size_bytes = 0) =>
                   ReturnedPaths = StaleNodes)
    /\ [][(Visiting /\ Outdated(NextNode)) =>
            /\ AboveMinDepth(NextNode) =>
                  /\ scan'.stale_nodes = scan.stale_nodes
                  /\ scan'.unvisited_nodes =
                         Waiting \o children(scan.tree, NextNode)
            /\ ~has_children(NextNode) =>
                  scan'.stale_nodes = Append(scan.stale_nodes, NextNode)]_vars

\* with min_depth 2 the stale directory x at depth 1 is left out and its
\* child x/b returned, next to the stale file a of depth 1
C23_Witness ==
    /\ Returned
    /\ scan.request.min_depth = {2}
    /\ Outdated(<<"x">>)
    /\ <<"x">> \notin ReturnedPaths
    /\ <<"x", "b">> \in ReturnedPaths
    /\ <<"a">> \in ReturnedPaths

\* the nodes taken for stale that the response leaves out
LeftOut == StaleNodes \ ReturnedPaths

\* C27: when the size floor keeps the scanner from returning every stale
\* node, the nodes it returns are the oldest ones: no stale node that is left
\* out was last modified earlier than a stale node that is returned.
C27_OldestReturnedFirst ==
    Returned =>
        \A l \in LeftOut : \A r \in ReturnedPaths :
            last_modified(scan.tree, l) >= last_modified(scan.tree, r)

\* the size floor has stopped the scanner between two stale nodes of
\* different age: the older is returned, the newer left out
C27_Witness ==
    /\ Returned
    /\ \E l \in LeftOut : \E r \in ReturnedPaths :
          last_modified(scan.tree, l) > last_modified(scan.tree, r)

\* C28: no returned path is an ancestor of another returned path: once a
\* node has been taken for stale, nothing beneath it is put on the list of
\* nodes to visit, taken for stale or returned.
C28_NoReturnedAncestor ==
    scan.pc # "none" =>
        \A n \in StaleNodes :
            \A m \in (StaleNodes \cup ReturnedPaths
                        \cup SeqRange(scan.unvisited_nodes)) \ {n} :
                ~Under(m, n)

\* two paths are returned of which neither lies under the other, next to a
\* stale file that is not returned because its directory is
C28_Witness ==
    /\ Returned
    /\ <<"x">> \in ReturnedPaths
    /\ <<"a">> \in ReturnedPaths
    /\ Outdated(<<"x", "b">>)
    /\ <<"x", "b">> \notin ReturnedPaths

----------------------------------------------------------------------------
(* Properties of RemoveEFSPathsHandler *)

Removed == rm.pc = "returned"
RemovedFiles == AllFiles \ rm.files
ListedFullPaths == { sanitize_efs_path(rm.paths[i], rm.efs_mount_path) : i \in 1..Len(rm.paths) }
ListedTwice == \E i, j \in 1..Len(rm.paths) : i # j /\ rm.paths[i] = rm.paths[j]

\* C24: RemoveEFSPathsHandler tolerates paths that are listed more than once
\* or that no longer exist: the request ends with its response, everything
\* at or below every listed path is removed, and size_bytes_removed is the
\* sum of the bytes of the removed files, each counted once.
C24_DuplicateAndMissingPathsTolerated ==
    /\ rm.pc \in {"none", "request", "paths", "returned"}
    /\ Removed =>
          /\ \A p \in ListedFullPaths : FilesUnder(rm.files, p) = {}
          /\ \A r \in rm.response : r.size_bytes_removed = SumSizes(RemovedFiles)
          /\ rm.response # {}

\* a request that lists c twice and a path that never existed has returned
\* the bytes of c/1 and c/2
C24_Witness ==
    /\ Removed
    /\ ListedTwice
    /\ <<"c">> \in SeqRange(rm.paths)
    /\ <<"gone">> \in SeqRange(rm.paths)
    /\ rm.response = {[size_bytes_removed |-> 6]}

\* C30: every path that RemoveEFSPathsHandler measures or removes lies
\* inside the EFS mount directory: whatever paths a request gives, nothing
\* outside efs_mount_path is touched or lost.
C30_RemovalStaysInsideMount ==
    rm.pc # "none" =>
        /\ \A p \in rm.touched : Under(p, rm.efs_mount_path)
        /\ \A f \in RemovedFiles : Under(f, rm.efs_mount_path)

----------------------------------------------------------------------------
(* Properties of the notification dispatch *)

Routed == router.pc = "returned"
RouterResults == UNION { {r.results} : r \in router.response }
NotifiedFor(i) == { k \in 1..Len(router.notified) : router.notified[k].t = i }
Accepting(i) == { n \in 1..Len(router.notifiers) : Parses(router.notifiers[n], router.targets[i]) }
Handling(i) == { n \in 1..Len(publish.publishers) : should_handle(publish.publishers[n], publish.publish_requests[i]) }

\* C25: NotificationRouter.handle returns exactly one result for each target
\* of the request: the response holds, target by target, the result of the
\* notifier that delivered to it (a success or a failure), or the failure
\* result of a target no notifier could handle.
C25_OneResultPerTarget ==
    Routed =>
        \A results \in RouterResults :
            /\ Len(results) = Len(router.targets)
            /\ \A i \in 1..Len(results) :
                  /\ \A k \in NotifiedFor(i) :
                        results[i] = router.notified[k].result
                  /\ NotifiedFor(i) = {} =>
                        /\ results[i].target = router.targets[i]
                        /\ ~results[i].success

\* C26: dispatch is first-match-wins over the ordered list: for each target
\* the notifiers are asked in list order up to the first that parses it,
\* that one alone delivers to it, once, and no later one is asked; the same
\* holds for the publish requests and the publishers.
C26_FirstMatchWins ==
    /\ router.pc # "none" =>
          /\ \A tn \in router.parsed :
                /\ \A j \in 1..(tn[2] - 1) :
                      <<tn[1], j>> \in router.parsed /\ j \notin Accepting(tn[1])
          /\ \A k \in 1..Len(router.notified) :
                LET d == router.notified[k]
                IN  /\ d.n \in Accepting(d.t)
                    /\ \A j \in Accepting(d.t) : d.n <= j
                    /\ NotifiedFor(d.t) = {k}
    /\ publish.pc # "none" =>
          /\ \A tn \in publish.asked :
                /\ \A j \in 1..(tn[2] - 1) :
                      <<tn[1], j>> \in publish.asked /\ j \notin Handling(tn[1])
          /\ \A k \in 1..Len(publish.published) :
                LET d == publish.published[k]
                IN  /\ d.n \in Handling(d.t)
                    /\ \A j \in Handling(d.t) : d.n <= j
                    /\ \A l \in 1..Len(publish.published) :
                          publish.published[l].t = d.t => l = k

\* the router has returned after a target that two notifiers of its list
\* parse was delivered once, by the first of them, and the second was never
\* asked about it
C26_Witness ==
    /\ Routed
    /\ \E i \in 1..Len(router.targets) :
          /\ Cardinality(Accepting(i)) = 2
          /\ Cardinality(NotifiedFor(i)) = 1
          /\ <<i, 1>> \in router.parsed
          /\ <<i, 2>> \notin router.parsed

----------------------------------------------------------------------------
(* The outcomes of select_file_system *)

\* C29: with the lookups of the EFS service answering, select_file_system
\* ends in one of two ways for any candidate list and strategy: it returns
\* one of the candidates it was given, or it raises ValueError; it raises no
\* other error and returns nothing that is not in the list.
C29_ReturnsCandidateOrValueError ==
    Ended =>
        \/ /\ frame.pc = "returned"
           /\ frame.result \in 1..Len(frame.given)
        \/ /\ frame.pc = "raised"
           /\ frame.error = "ValueError"

====
